---- MODULE Spec2Model ----
(***************************************************************************)
(* A model of components/script/dom/xmlhttprequest.rs: the XMLHttpRequest  *)
(* object (its fields), the operations of its WebIDL surface, the handlers *)
(* the fetch service and the timer service call back, and the event        *)
(* handlers ("observers") that script attaches and that may call back into *)
(* the object while a handler is in the middle of its notification         *)
(* sequence.                                                               *)
(*                                                                         *)
(* Every handler is cut at the places where it fires an event: firing      *)
(* suspends the handler (a frame on `stack`), the observer may then call   *)
(* any operation of the object, and ObserverReturn resumes the handler at  *)
(* the statement after the dispatch.  A handler that fires nothing is one  *)
(* step.                                                                   *)
(***************************************************************************)
EXTENDS Integers, Sequences, FiniteSets, TLC

VARIABLES
    xhr,      \* the fields of struct XMLHttpRequest
    fetches,  \* fetch service: one record per submitted fetch (XHRContext + stream position)
    timers,   \* timer service: the scheduled, not yet fired or cancelled, XHRTimeoutCallbacks
    log,      \* the events fired since the last accepted send, in order
    stack,    \* suspended handlers, innermost last
    panic,    \* an assert! of the source failed
    field_value  \* a call of is_field_value from outside: its slice and what it returned

vars == <<xhr, fetches, timers, log, stack, panic, field_value>>

----------------------------------------------------------------------------
(* Bounds of the model *)

\* open and abort are disabled once generation_id has reached MaxGen
MaxGen == 2
\* chunks the fetch service delivers per fetch
MaxChunks == 2
\* handlers suspended at once (depth of reentrancy)
MaxDepth == 2
\* bytes of a request header value after combining
MaxValueLen == 4

----------------------------------------------------------------------------
(* enum XMLHttpRequestState *)

Unsent == 0
Opened == 1
HeadersReceived == 2
Loading == 3
Done == 4

----------------------------------------------------------------------------
(* Option<T>: None is the empty sequence, Some(v) the one-element sequence *)

None == <<>>
Some(v) == <<v>>
IsSome(o) == o # <<>>
Unwrap(o) == o[1]

(* Byte strings are sequences of byte values *)

CR == 13
LF == 10
SP == 32
HT == 9

\* ByteString::to_lower: ASCII upper-case letters to lower case
to_lower(bs) == [i \in 1..Len(bs) |-> IF bs[i] >= 65 /\ bs[i] <= 90 THEN bs[i] + 32 ELSE bs[i]]

\* str::to_ascii_uppercase
to_ascii_uppercase(bs) == [i \in 1..Len(bs) |-> IF bs[i] >= 97 /\ bs[i] <= 122 THEN bs[i] - 32 ELSE bs[i]]

\* the separators of RFC 2616 section 2.2: ( ) < > @ , ; : \ " / [ ] ? = { } SP HT
Separators == {40, 41, 60, 62, 64, 44, 59, 58, 92, 34, 47, 91, 93, 63, 61, 123, 125, 32, 9}

\* bindings::str::is_token: a non-empty run of visible US-ASCII bytes, none a separator
is_token(bs) ==
    /\ bs # <<>>
    /\ \A i \in 1..Len(bs) : bs[i] > 31 /\ bs[i] < 127 /\ bs[i] \notin Separators

HttpWhitespace == {HT, LF, CR, SP}

RECURSIVE TrimLeft(_)
TrimLeft(bs) == IF bs # <<>> /\ Head(bs) \in HttpWhitespace THEN TrimLeft(Tail(bs)) ELSE bs

RECURSIVE TrimRight(_)
TrimRight(bs) ==
    IF bs # <<>> /\ bs[Len(bs)] \in HttpWhitespace
    THEN TrimRight(SubSeq(bs, 1, Len(bs) - 1))
    ELSE bs

\* net_traits::trim_http_whitespace: leading and trailing HT, LF, CR, SP removed
trim_http_whitespace(bs) == TrimRight(TrimLeft(bs))

\* the transitions of is_field_value's PreviousCharacter machine; "Reject" ends the scan
FieldValueStep(prev, x) ==
    CASE x = 13 -> IF prev \in {"Other", "SPHT"} THEN "CR" ELSE "Reject"
      [] x = 10 -> IF prev = "CR" THEN "LF" ELSE "Reject"
      [] x = 32 -> IF prev \in {"LF", "SPHT"} THEN "SPHT"
                   ELSE IF prev = "Other" THEN "Other" ELSE "Reject"
      [] x = 9 -> IF prev \in {"LF", "SPHT"} THEN "SPHT" ELSE "Reject"
      [] (x >= 0 /\ x <= 31) \/ x = 127 -> "Reject"
      [] x > 127 -> "Reject"
      [] OTHER -> IF prev \in {"Other", "SPHT"} THEN "Other" ELSE "Reject"

RECURSIVE FieldValueScan(_, _)
FieldValueScan(prev, bs) ==
    IF bs = <<>> THEN TRUE
    ELSE LET next == FieldValueStep(prev, Head(bs))
         IN  IF next = "Reject" THEN FALSE ELSE FieldValueScan(next, Tail(bs))

\* is_field_value: every byte is accepted by the machine, started in Other
is_field_value(slice) == FieldValueScan("Other", slice)

\* the text of a byte string: 'X' is 88, 'a' is 97, ...
GET == <<71, 69, 84>>
HEAD == <<72, 69, 65, 68>>
POST == <<80, 79, 83, 84>>
TRACK == <<84, 82, 65, 67, 75>>
TRACE == <<84, 82, 65, 67, 69>>
CONNECT == <<67, 79, 78, 78, 69, 67, 84>>
DELETE == <<68, 69, 76, 69, 84, 69>>
OPTIONS == <<79, 80, 84, 73, 79, 78, 83>>
PUT == <<80, 85, 84>>

KnownMethods == {DELETE, GET, HEAD, OPTIONS, POST, PUT, CONNECT, TRACE, TRACK}

\* Open_ step 5: a known method is taken in upper case, any other token as written
ParseMethod(method) ==
    LET upper == to_ascii_uppercase(method)
    IN  IF upper \in KnownMethods THEN Some(upper)
        ELSE IF is_token(method) THEN Some(method)
        ELSE None

\* headers::is_forbidden_header_name, on the lower-cased name: "te" and "via" stand
\* for the names of the forbidden list
TE == <<116, 101>>
VIA == <<118, 105, 97>>
ForbiddenHeaderNames == {TE, VIA}
is_forbidden_header_name(name) == name \in ForbiddenHeaderNames

\* base.join(url): the urls that do not parse are those of BadUrls
BadUrls == {"http://["}
ParseUrl(url) == IF url \in BadUrls THEN None ELSE Some(url)

\* str::parse::<Mime>: the texts that parse are those of MimeTable, each with its
\* type without parameters and the encoding its charset parameter labels, if any
MimeTable ==
    { [text |-> "text/plain", essence |-> "text/plain", charset |-> None],
      [text |-> "text/html;charset=utf-8", essence |-> "text/html", charset |-> Some("UTF-8")],
      [text |-> "text/xml;charset=bogus", essence |-> "text/xml", charset |-> None] }
ParseMime(mime) ==
    IF \E m \in MimeTable : m.text = mime
    THEN Some(CHOOSE m \in MimeTable : m.text = mime)
    ELSE None

\* encoding_rs UTF-8 decode, on bytes that are ASCII or can start no UTF-8 sequence
\* (248..255): an ASCII byte is its code point, the others become U+FFFD
ReplacementChar == 65533
Utf8Decode(bytes) ==
    [i \in 1..Len(bytes) |-> IF bytes[i] < 128 THEN bytes[i] ELSE ReplacementChar]

----------------------------------------------------------------------------
(* The state *)

\* XMLHttpRequest::new_inherited
NewXhr(global) ==
    [ ready_state |-> Unsent,
      timeout |-> 0,
      response_url |-> "",
      status |-> 0,
      status_text |-> "",
      response |-> <<>>,
      response_reserved |-> None,
      response_type |-> "",
      response_xml |-> None,
      response_blob |-> None,
      response_arraybuffer |-> None,
      response_json |-> None,
      response_headers |-> {},
      request_method |-> GET,
      request_url |-> None,
      request_headers |-> {},
      request_body_len |-> 0,
      sync |-> FALSE,
      upload_complete |-> FALSE,
      send_flag |-> FALSE,
      timeout_cancel |-> None,
      generation_id |-> 0,
      response_status |-> "Ok",
      override_mime_type |-> None,
      override_charset |-> None,
      canceller |-> 0,
      global |-> global,
      pointer_width |-> 64 ]

\* the state as one record, which the handlers' blocks below transform
World ==
    [ xhr |-> xhr, fetches |-> fetches, timers |-> timers, log |-> log,
      stack |-> stack, panic |-> panic ]

\* A fetch of an earlier generation whose context no handler in progress holds
\* is stale for good: should_invoke drops whatever it still delivers.  Its record
\* is brought to a normal form: nothing is kept of a fetch with nothing left to
\* deliver (it has ended, or it is synchronous and the loop of fetch() that
\* received its messages is gone), and of any other only that it is "detached":
\* any message of it may still be delivered, in any order
Stale(w, ctx) ==
    /\ w.fetches[ctx].gen_id # w.xhr.generation_id
    /\ \A i \in 1..Len(w.stack) : w.stack[i].ctx # ctx

Forgotten ==
    [gen_id |-> 0, sync |-> FALSE, phase |-> "closed", sent |-> <<>>, sync_status |-> None]

Forget(w) ==
    [ctx \in 1..Len(w.fetches) |->
        LET f == w.fetches[ctx]
        IN  IF ~Stale(w, ctx) THEN f
            ELSE IF f.phase = "closed" \/ f.sync THEN Forgotten
            ELSE [f EXCEPT !.phase = "detached", !.sent = <<>>, !.sync_status = None]]

\* Of a scheduled callback of an earlier generation only that much is kept: its
\* generation_id, 0 here, is not the object's any more
Outdated(w) ==
    {IF t.generation_id = w.xhr.generation_id THEN t ELSE [t EXCEPT !.generation_id = 0] :
        t \in w.timers}

Commit(w) ==
    /\ xhr' = w.xhr
    /\ fetches' = Forget(w)
    /\ timers' = Outdated(w)
    /\ log' = w.log
    /\ stack' = w.stack
    /\ panic' = w.panic
    /\ field_value' = field_value

NoMeta == [ok |-> FALSE, final_url |-> "", headers |-> None, status |-> None]

\* a handler in progress: proc is the entry point, pc the block to run next, cont
\* the blocks to return to when process_partial_response returns, msg_id, progress,
\* e, meta and chunk the XHRProgress message, gen_id the local of Send and Abort,
\* ctx the XHRContext (index in fetches), at where the handler is suspended
Frame(proc, pc) ==
    [ proc |-> proc, pc |-> pc, cont |-> <<>>, msg_id |-> 0, progress |-> "",
      e |-> "", meta |-> NoMeta, chunk |-> <<>>, gen_id |-> 0,
      ctx |-> 0, at |-> "" ]

\* what a block hands back: the world, the frame with its next pc, how to go on,
\* and the value returned when the call ends
Goto(w, fr, pc) == [w |-> w, fr |-> [fr EXCEPT !.pc = pc], ctl |-> "goto", val |-> ""]
End(w, fr) == [w |-> w, fr |-> fr, ctl |-> "end", val |-> ""]
Return(w, fr, val) == [w |-> w, fr |-> fr, ctl |-> "end", val |-> val]
Panic(w, fr) == [w |-> w, fr |-> fr, ctl |-> "panic", val |-> ""]
Yield(w, fr, pc) == [w |-> w, fr |-> [fr EXCEPT !.pc = pc], ctl |-> "yield", val |-> ""]
Block(w, fr, pc) == [w |-> w, fr |-> [fr EXCEPT !.pc = pc], ctl |-> "sync_wait", val |-> ""]

\* an event as its observers see it: the target, the type, and readyState at dispatch
Notification(w, target, type) ==
    [target |-> target, type |-> type, ready_state |-> w.xhr.ready_state]

\* event.fire(target): the event is dispatched, and the handler goes on at pc when
\* the observers have returned
Fire(w, fr, target, type, pc) ==
    [ w |-> [w EXCEPT !.log = Append(@, Notification(w, target, type))],
      fr |-> [fr EXCEPT !.pc = pc],
      ctl |-> "observer",
      val |-> "" ]

\* dispatch_response_progress_event and dispatch_upload_progress_event
dispatch_response_progress_event(w, fr, type, pc) == Fire(w, fr, "xhr", type, pc)
dispatch_upload_progress_event(w, fr, type, pc) == Fire(w, fr, "upload", type, pc)

\* a bug: the state is changed and no event fired
change_ready_state_silent(w, fr, rs, pc) ==
    IF w.xhr.ready_state = rs THEN Panic(w, fr)
    ELSE Goto([w EXCEPT !.xhr.ready_state = rs], fr, pc)

\* change_ready_state: assert_ne!, the assignment, and a readystatechange event
change_ready_state(w, fr, rs, pc) ==
    IF w.xhr.ready_state = rs THEN Panic(w, fr)
    ELSE Fire([w EXCEPT !.xhr.ready_state = rs], fr, "xhr", "readystatechange", pc)

\* FetchCanceller::cancel: the fetch the canceller holds, if any, is told to stop.
\* What the fetch service delivers for it from then on is not tracked message by
\* message: in phase "detached" any message of it may still come
cancel(w) ==
    LET ctx == w.xhr.canceller
    IN  IF ctx = 0 THEN w
        ELSE IF w.fetches[ctx].phase = "closed" THEN [w EXCEPT !.xhr.canceller = 0]
        ELSE [w EXCEPT !.fetches[ctx].phase = "detached",
                       !.fetches[ctx].sent = <<>>,
                       !.xhr.canceller = 0]

\* FetchCanceller::ignore: the canceller lets go of the fetch, which goes on
ignore(w) == [w EXCEPT !.xhr.canceller = 0]

\* a bug: the fetch is cancelled, the generation stays
terminate_ongoing_fetch_same_generation(w) ==
    [cancel(w) EXCEPT !.xhr.response_status = "Ok"]

\* a bug: the generation is advanced twice
terminate_ongoing_fetch_twice(w) ==
    [cancel(w) EXCEPT !.xhr.generation_id = @ + 2, !.xhr.response_status = "Ok"]

\* terminate_ongoing_fetch
terminate_ongoing_fetch(w) ==
    LET c == cancel(w)
    IN  [c EXCEPT !.xhr.generation_id = @ + 1, !.xhr.response_status = "Ok"]

\* discard_subsequent_responses
discard_subsequent_responses(w) == [w EXCEPT !.xhr.response_status = "Err"]

\* set_timeout: a new XHRTimeoutCallback with the current generation is scheduled
\* and its handle stored, replacing (not unscheduling) the handle stored before
set_timeout(w, duration_ms) ==
    [w EXCEPT
        !.timers = {[t EXCEPT !.held = FALSE] : t \in @}
                   \cup {[generation_id |-> w.xhr.generation_id, held |-> TRUE]},
        !.xhr.timeout_cancel = Some("handle")]

\* cancel_timeout: the stored handle is taken and its callback unscheduled
cancel_timeout(w) ==
    IF IsSome(w.xhr.timeout_cancel)
    THEN [w EXCEPT !.timers = {t \in @ : ~t.held}, !.xhr.timeout_cancel = None]
    ELSE w

\* sync_in_window
sync_in_window(x) == x.sync /\ x.global = "Window"

----------------------------------------------------------------------------
(* HeaderMap: a set of <<name, value>> pairs, one per name *)

contains_key(h, name) == \E p \in h : p[1] = name
get(h, name) == (CHOOSE p \in h : p[1] = name)[2]

----------------------------------------------------------------------------
(* The content length, a u64: four digits of base 65536, the lowest first  *)

Digit == 65536
U64(hi, lo) == <<lo % Digit, lo \div Digit, hi % Digit, hi \div Digit>>

\* str::parse::<u64>: the texts that parse are those of LengthTable, each with its
\* number
LengthTable ==
    { [text |-> "0", len |-> U64(0, 0)],
      [text |-> "5", len |-> U64(0, 5)],
      [text |-> "4194304", len |-> U64(0, 4194304)],
      [text |-> "5000000", len |-> U64(0, 5000000)],
      [text |-> "4294967296", len |-> U64(1, 0)],
      [text |-> "4294967301", len |-> U64(1, 5)] }

\* typed_get::<ContentLength>: the number of the only Content-Length header
ContentLength(h) ==
    IF contains_key(h, "content-length") /\ Len(get(h, "content-length")) = 1
          /\ \E l \in LengthTable : l.text = get(h, "content-length")[1]
    THEN Some((CHOOSE l \in LengthTable : l.text = get(h, "content-length")[1]).len)
    ELSE None

\* len.0 as usize: the low digits that a usize of the build's pointer width holds
as_usize(len, pointer_width) ==
    IF pointer_width = 32 THEN <<len[1], len[2], 0, 0>> ELSE len

\* a < b
RECURSIVE Less(_, _)
Less(a, b) ==
    IF a = <<>> THEN FALSE
    ELSE LET n == Len(a)
         IN  IF a[n] # b[n] THEN a[n] < b[n]
             ELSE Less(SubSeq(a, 1, n - 1), SubSeq(b, 1, n - 1))

cmp_min(a, b) == IF Less(b, a) THEN b ELSE a

\* 0b100_0000000000_0000000000, 4 MiB
MaxReserve == U64(0, 4194304)

prereserve_uncapped(headers, pointer_width) ==
    LET len == IF IsSome(headers) THEN ContentLength(Unwrap(headers)) ELSE None
    IN  IF IsSome(len) THEN Some(as_usize(Unwrap(len), pointer_width)) ELSE None

\* the size that HeadersReceived reserves for the response, if any
prereserve(headers, pointer_width) ==
    LET len == IF IsSome(headers) THEN ContentLength(Unwrap(headers)) ELSE None
    IN  IF IsSome(len)
        THEN Some(cmp_min(MaxReserve, as_usize(Unwrap(len), pointer_width)))
        ELSE None
insert(h, name, value) == {p \in h : p[1] # name} \cup {<<name, value>>}

----------------------------------------------------------------------------
(* The operations of XMLHttpRequestMethods.  Each takes the world and the   *)
(* frame of the call and hands back a block result.                        *)

\* a bug: the fetch in progress is terminated before the arguments are checked
Open_terminates_first(w, fr, method, url, async, active) ==
    LET t == terminate_ongoing_fetch(w)
        x == t.xhr
        maybe_method == ParseMethod(method)
        parsed_url == ParseUrl(url)
    IN  IF x.global = "Window" /\ ~active THEN Return(t, fr, "InvalidState")
        ELSE IF maybe_method = None THEN Return(t, fr, "Syntax")
        ELSE IF Unwrap(maybe_method) \in {CONNECT, TRACE, TRACK}
             THEN Return(t, fr, "Security")
        ELSE IF ~is_token(method) THEN Return(t, fr, "Syntax")
        ELSE IF parsed_url = None THEN Return(t, fr, "Syntax")
        ELSE IF ~async /\ (x.timeout # 0 \/ x.response_type # "")
             THEN Return(t, fr, "InvalidAccess")
        ELSE LET o == [t EXCEPT !.xhr.request_method = Unwrap(maybe_method),
                                !.xhr.request_url = parsed_url,
                                !.xhr.sync = ~async,
                                !.xhr.request_headers = {},
                                !.xhr.send_flag = FALSE,
                                !.xhr.status_text = "",
                                !.xhr.status = 0]
             IN  IF o.xhr.ready_state # Opened
                 THEN change_ready_state(o, fr, Opened, "Open_ret")
                 ELSE Return(o, fr, "Ok")

\* a bug: a synchronous open looks at the timeout only
Open_ignores_response_type(w, fr, method, url, async, active) ==
    LET x == w.xhr
        maybe_method == ParseMethod(method)
        parsed_url == ParseUrl(url)
    IN  IF x.global = "Window" /\ ~active THEN Return(w, fr, "InvalidState")
        ELSE IF maybe_method = None THEN Return(w, fr, "Syntax")
        ELSE IF Unwrap(maybe_method) \in {CONNECT, TRACE, TRACK}
             THEN Return(w, fr, "Security")
        ELSE IF ~is_token(method) THEN Return(w, fr, "Syntax")
        ELSE IF parsed_url = None THEN Return(w, fr, "Syntax")
        ELSE IF ~async /\ x.timeout # 0
             THEN Return(w, fr, "InvalidAccess")
        ELSE LET t == terminate_ongoing_fetch(w)
                 o == [t EXCEPT !.xhr.request_method = Unwrap(maybe_method),
                                !.xhr.request_url = parsed_url,
                                !.xhr.sync = ~async,
                                !.xhr.request_headers = {},
                                !.xhr.send_flag = FALSE,
                                !.xhr.status_text = "",
                                !.xhr.status = 0]
             IN  IF o.xhr.ready_state # Opened
                 THEN change_ready_state(o, fr, Opened, "Open_ret")
                 ELSE Return(o, fr, "Ok")

\* Open_
Open_(w, fr, method, url, async, active) ==
    LET x == w.xhr
        maybe_method == ParseMethod(method)
        parsed_url == ParseUrl(url)
    IN  IF x.global = "Window" /\ ~active THEN Return(w, fr, "InvalidState")
        ELSE IF maybe_method = None THEN Return(w, fr, "Syntax")
        ELSE IF Unwrap(maybe_method) \in {CONNECT, TRACE, TRACK}
             THEN Return(w, fr, "Security")
        ELSE IF ~is_token(method) THEN Return(w, fr, "Syntax")
        ELSE IF parsed_url = None THEN Return(w, fr, "Syntax")
        ELSE IF ~async /\ (x.timeout # 0 \/ x.response_type # "")
             THEN Return(w, fr, "InvalidAccess")
        ELSE LET t == terminate_ongoing_fetch(w)
                 o == [t EXCEPT !.xhr.request_method = Unwrap(maybe_method),
                                !.xhr.request_url = parsed_url,
                                !.xhr.sync = ~async,
                                !.xhr.request_headers = {},
                                !.xhr.send_flag = FALSE,
                                !.xhr.status_text = "",
                                !.xhr.status = 0]
             IN  IF o.xhr.ready_state # Opened
                 THEN change_ready_state(o, fr, Opened, "Open_ret")
                 ELSE Return(o, fr, "Ok")

\* a bug: the send flag is not looked at
SetRequestHeader_while_sending(w, fr, name, value) ==
    LET x == w.xhr
        v == trim_http_whitespace(value)
        name_str == to_lower(name)
        headers == x.request_headers
        combined == IF contains_key(headers, name_str)
                    THEN get(headers, name_str) \o <<44, 32>> \o v
                    ELSE v
    IN  IF x.ready_state # Opened
        THEN Return(w, fr, "InvalidState")
        ELSE IF ~is_token(name) \/ ~is_field_value(v)
             THEN Return(w, fr, "Syntax")
        ELSE IF is_forbidden_header_name(name_str)
             THEN Return(w, fr, "Ok")
        ELSE Return([w EXCEPT !.xhr.request_headers = insert(headers, name_str, combined)],
                    fr, "Ok")

\* a bug: the new value replaces the one the header has
SetRequestHeader_replaces(w, fr, name, value) ==
    LET x == w.xhr
        v == trim_http_whitespace(value)
        name_str == to_lower(name)
        headers == x.request_headers
    IN  IF x.ready_state # Opened \/ x.send_flag
        THEN Return(w, fr, "InvalidState")
        ELSE IF ~is_token(name) \/ ~is_field_value(v)
             THEN Return(w, fr, "Syntax")
        ELSE IF is_forbidden_header_name(name_str)
             THEN Return(w, fr, "Ok")
        ELSE Return([w EXCEPT !.xhr.request_headers = insert(headers, name_str, v)],
                    fr, "Ok")

\* SetRequestHeader
SetRequestHeader_(w, fr, name, value) ==
    LET x == w.xhr
        v == trim_http_whitespace(value)
        name_str == to_lower(name)
        headers == x.request_headers
        combined == IF contains_key(headers, name_str)
                    THEN get(headers, name_str) \o <<44, 32>> \o v
                    ELSE v
    IN  IF x.ready_state # Opened \/ x.send_flag
        THEN Return(w, fr, "InvalidState")
        ELSE IF ~is_token(name) \/ ~is_field_value(v)
             THEN Return(w, fr, "Syntax")
        ELSE IF is_forbidden_header_name(name_str)
             THEN Return(w, fr, "Ok")
        ELSE Return([w EXCEPT !.xhr.request_headers = insert(headers, name_str, combined)],
                    fr, "Ok")

\* SetTimeout.  The time since the fetch began only decides how long the new
\* timer runs; either way a timer is scheduled, and when it fires is not modelled
SetTimeout_sets_first(w, fr, timeout) ==
    IF sync_in_window(w.xhr)
    THEN Return([w EXCEPT !.xhr.timeout = timeout], fr, "InvalidAccess")
    ELSE LET t == [w EXCEPT !.xhr.timeout = timeout]
         IN  IF t.xhr.send_flag
             THEN IF timeout = 0
                  THEN Return(cancel_timeout(t), fr, "Ok")
                  ELSE Return(set_timeout(t, timeout), fr, "Ok")
             ELSE Return(t, fr, "Ok")

SetTimeout_(w, fr, timeout) ==
    IF sync_in_window(w.xhr) THEN Return(w, fr, "InvalidAccess")
    ELSE LET t == [w EXCEPT !.xhr.timeout = timeout]
         IN  IF t.xhr.send_flag
             THEN IF timeout = 0
                  THEN Return(cancel_timeout(t), fr, "Ok")
                  ELSE Return(set_timeout(t, timeout), fr, "Ok")
             ELSE Return(t, fr, "Ok")

\* a bug: the type is set on a synchronous request in a window too
SetResponseType_when_sync(w, fr, response_type) ==
    IF w.xhr.global = "Worker" /\ response_type = "document"
    THEN Return(w, fr, "Ok")
    ELSE IF w.xhr.ready_state \in {Loading, Done}
         THEN Return(w, fr, "InvalidState")
    ELSE Return([w EXCEPT !.xhr.response_type = response_type], fr, "Ok")

\* SetResponseType
SetResponseType_(w, fr, response_type) ==
    IF w.xhr.global = "Worker" /\ response_type = "document"
    THEN Return(w, fr, "Ok")
    ELSE IF w.xhr.ready_state \in {Loading, Done}
         THEN Return(w, fr, "InvalidState")
    ELSE IF sync_in_window(w.xhr)
         THEN Return(w, fr, "InvalidAccess")
    ELSE Return([w EXCEPT !.xhr.response_type = response_type], fr, "Ok")

OverrideMimeType_unchecked(w, fr, mime) ==
    LET override_mime == ParseMime(mime)
    IN  IF override_mime = None THEN Return(w, fr, "Syntax")
        ELSE Return([w EXCEPT !.xhr.override_mime_type = Some(Unwrap(override_mime).essence),
                              !.xhr.override_charset = Unwrap(override_mime).charset],
                    fr, "Ok")

\* OverrideMimeType
OverrideMimeType_(w, fr, mime) ==
    LET override_mime == ParseMime(mime)
    IN  IF w.xhr.ready_state \in {Loading, Done} THEN Return(w, fr, "InvalidState")
        ELSE IF override_mime = None THEN Return(w, fr, "Syntax")
        ELSE Return([w EXCEPT !.xhr.override_mime_type = Some(Unwrap(override_mime).essence),
                              !.xhr.override_charset = Unwrap(override_mime).charset],
                    fr, "Ok")

\* typed_get::<ContentType>: the Content-Type header of the response, parsed
ContentType(x) ==
    IF contains_key(x.response_headers, "content-type")
          /\ Len(get(x.response_headers, "content-type")) = 1
    THEN ParseMime(get(x.response_headers, "content-type")[1])
    ELSE None

\* final_charset: the charset given to overrideMimeType, or else the one of the
\* response's Content-Type header
final_charset(x) ==
    IF IsSome(x.override_charset) THEN x.override_charset
    ELSE IF IsSome(ContentType(x)) THEN Unwrap(ContentType(x)).charset
    ELSE None

\* final_mime_type: the type given to overrideMimeType, or else the one of the
\* response's Content-Type header (here without its parameters)
final_mime_type(x) ==
    IF IsSome(x.override_mime_type) THEN x.override_mime_type
    ELSE IF IsSome(ContentType(x)) THEN Some(Unwrap(ContentType(x)).essence)
    ELSE None

\* text_response: the response bytes decoded with final_charset, UTF-8 if there is
\* none; UTF-8 is the one encoding of this model
text_response(x) == Utf8Decode(x.response)

----------------------------------------------------------------------------
(* Reading the response headers.  A byte string is held as the sequence of  *)
(* the pieces it was put together from                                     *)

\* filter_response_headers
filter_response_headers(x) ==
    {p \in x.response_headers : p[1] \notin {"set-cookie", "set-cookie2"}}

\* headers.keys(): every name once, in the order of the map, which is any
Keys(h) ==
    LET names == {p[1] : p \in h}
    IN  {keys \in [1..Cardinality(names) -> names] :
            \A i, j \in 1..Cardinality(names) : keys[i] = keys[j] => i = j}

\* GetAllResponseHeaders: the loop over the values of one name; first is set
\* to false only where it is false already
RECURSIVE ExtendValues(_, _, _)
ExtendValues(vec, first, values) ==
    IF values = <<>> THEN vec
    ELSE LET sep == IF ~first THEN vec \o <<", ">> ELSE vec
             first_ == IF ~first THEN FALSE ELSE first
         IN  ExtendValues(sep \o <<Head(values)>>, first_, Tail(values))

\* GetAllResponseHeaders: the fold over the names, taken in the order keys
RECURSIVE FoldKeys(_, _, _)
FoldKeys(vec, headers, keys) ==
    IF keys = <<>> THEN vec
    ELSE LET k == Head(keys)
             named == vec \o <<k, ": ">>
             valued == ExtendValues(named, TRUE, get(headers, k))
         IN  FoldKeys(valued \o <<"\r\n">>, headers, Tail(keys))

GetAllResponseHeaders(x, keys) == FoldKeys(<<>>, filter_response_headers(x), keys)

----------------------------------------------------------------------------
(* Reading the response.  A read hands back the world, in which it may have *)
(* stored the object it made, and the value read.  An object carries in     *)
(* made_in the generation it was made in, which stands for its identity     *)

Read(w, val) == [w |-> w, val |-> val]
Null == [kind |-> "Null"]
String(text) == [kind |-> "String", text |-> text]
Err(e) == [kind |-> "Err", error |-> e]

\* JS_ParseJSON: the texts that parse are those of JsonTable, each with its value
JsonTable == { [text |-> <<49>>, value |-> 1], [text |-> <<49, 49>>, value |-> 11] }
JS_ParseJSON(text) ==
    IF \E j \in JsonTable : j.text = text
    THEN Some((CHOOSE j \in JsonTable : j.text = text).value)
    ELSE None

\* blob_response
blob_response(w) ==
    IF IsSome(w.xhr.response_blob) THEN Read(w, Unwrap(w.xhr.response_blob))
    ELSE LET mime == IF IsSome(final_mime_type(w.xhr)) THEN Unwrap(final_mime_type(w.xhr))
                     ELSE ""
             blob == [kind |-> "Blob", bytes |-> w.xhr.response, mime |-> mime,
                      made_in |-> w.xhr.generation_id]
         IN  Read([w EXCEPT !.xhr.response_blob = Some(blob)], blob)

\* arraybuffer_response, ArrayBuffer::create succeeding
arraybuffer_response(w) ==
    IF IsSome(w.xhr.response_arraybuffer) THEN Read(w, Unwrap(w.xhr.response_arraybuffer))
    ELSE LET array_buffer == [kind |-> "ArrayBuffer", bytes |-> w.xhr.response,
                              made_in |-> w.xhr.generation_id]
         IN  Read([w EXCEPT !.xhr.response_arraybuffer = Some(array_buffer)], array_buffer)

\* the types that document_response parses as XML: text/xml, application/xml, and
\* those with the suffix +xml
XmlTypes == {"text/xml", "application/xml", "image/svg+xml"}

\* document_text_html and handle_xml: a document parsed from the decoded response
new_doc(w, is_html_document) ==
    [kind |-> "Document", is_html |-> is_html_document, text |-> Utf8Decode(w.xhr.response),
     made_in |-> w.xhr.generation_id]

\* document_response
document_response(w) ==
    LET mime_type == final_mime_type(w.xhr)
        stored(doc) == Read([w EXCEPT !.xhr.response_xml = Some(doc)], doc)
    IN  IF IsSome(w.xhr.response_xml) THEN Read(w, Unwrap(w.xhr.response_xml))
        ELSE IF w.xhr.response_status = "Err" THEN Read(w, Null)
        ELSE IF mime_type = Some("text/html")
             THEN IF w.xhr.response_type = "" THEN Read(w, Null)
                  ELSE stored(new_doc(w, TRUE))
        ELSE IF mime_type = None \/ Unwrap(mime_type) \in XmlTypes
             THEN stored(new_doc(w, FALSE))
        ELSE Read(w, Null)

\* json_response
json_response(w) ==
    LET parsed == JS_ParseJSON(w.xhr.response)
        json == [kind |-> "Json", value |-> Unwrap(parsed), made_in |-> w.xhr.generation_id]
    IN  IF IsSome(w.xhr.response_json) THEN Read(w, Unwrap(w.xhr.response_json))
        ELSE IF Len(w.xhr.response) = 0 THEN Read(w, Null)
        ELSE IF parsed = None THEN Read(w, Null)
        ELSE Read([w EXCEPT !.xhr.response_json = Some(json)], json)

Response_any_state(w) ==
    LET x == w.xhr
    IN  IF x.response_type \in {"", "text"}
        THEN Read(w, String(text_response(x)))
        ELSE IF x.ready_state # Done THEN Read(w, Null)
        ELSE CASE x.response_type = "document" -> document_response(w)
               [] x.response_type = "json" -> json_response(w)
               [] x.response_type = "blob" -> blob_response(w)
               [] x.response_type = "arraybuffer" -> arraybuffer_response(w)

\* Response: the response attribute
Response(w) ==
    LET x == w.xhr
    IN  IF x.response_type \in {"", "text"}
        THEN IF x.ready_state \in {Done, Loading}
             THEN Read(w, String(text_response(x)))
             ELSE Read(w, String(<<>>))
        ELSE IF x.ready_state # Done THEN Read(w, Null)
        ELSE CASE x.response_type = "document" -> document_response(w)
               [] x.response_type = "json" -> json_response(w)
               [] x.response_type = "blob" -> blob_response(w)
               [] x.response_type = "arraybuffer" -> arraybuffer_response(w)

\* GetResponseText: the responseText attribute
GetResponseText(w) ==
    LET x == w.xhr
    IN  IF x.response_type \in {"", "text"}
        THEN IF x.ready_state \in {Loading, Done}
             THEN Read(w, String(text_response(x)))
             ELSE Read(w, String(<<>>))
        ELSE Read(w, Err("InvalidState"))

\* GetResponseXML: the responseXML attribute
GetResponseXML(w) ==
    LET x == w.xhr
    IN  IF x.response_type \in {"", "document"}
        THEN IF x.ready_state = Done THEN document_response(w) ELSE Read(w, Null)
        ELSE Read(w, Err("InvalidState"))

\* Extractable::extract of a string body: its bytes
extract(data) == Unwrap(data)

\* Send, step 3: the body is dropped for GET and HEAD
SendBody(x, data) == IF x.request_method \in {GET, HEAD} THEN None ELSE data

\* a bug: a body of no bytes counts as a body to upload
UploadComplete_only_without_body(body) == body = None

\* Send, steps 6 and 7: upload_complete from the extracted body
UploadComplete(body) == body = None \/ extract(body) = <<>>

\* Send, steps 1 to 8 and the loadstart event of step 9
Send_(w, fr, data) ==
    LET x == w.xhr
        body == SendBody(x, data)
        s == [w EXCEPT !.xhr.request_body_len = IF body = None THEN 0 ELSE Len(extract(body)),
                       !.xhr.upload_complete = UploadComplete(body),
                       !.xhr.send_flag = TRUE,
                       !.log = <<>>]
        f == [fr EXCEPT !.gen_id = x.generation_id]
    IN  IF x.ready_state # Opened \/ x.send_flag
        THEN Return(w, fr, "InvalidState")
        ELSE IF ~x.sync
             THEN dispatch_response_progress_event(s, f, "loadstart", "Send_9_1")
             ELSE Yield(s, f, "Send_fetch")

\* fetch, up to its loop: a new XHRContext with the current generation, and the
\* request handed to the fetch service; the canceller now holds this fetch
fetch(w) ==
    LET c == cancel(w)
    IN  [c EXCEPT
            !.fetches = Append(@, [ gen_id |-> w.xhr.generation_id,
                                    sync |-> w.xhr.sync,
                                    phase |-> "headers",
                                    sent |-> <<>>,
                                    sync_status |-> None ]),
            !.xhr.canceller = Len(w.fetches) + 1]

\* a bug: the generation is not compared after the loadstart event
Send_9_1_unchecked(w, fr) ==
    IF ~w.xhr.upload_complete
    THEN dispatch_upload_progress_event(w, fr, "loadstart", "Send_9_2")
    ELSE Goto(w, fr, "Send_fetch")

\* Send after the loadstart event: the generation check, and the upload loadstart
Send_9_1(w, fr) ==
    IF w.xhr.generation_id # fr.gen_id THEN Return(w, fr, "Ok")
    ELSE IF ~w.xhr.upload_complete
         THEN dispatch_upload_progress_event(w, fr, "loadstart", "Send_9_2")
         ELSE Goto(w, fr, "Send_fetch")

\* a bug: the generation is not compared after the upload's loadstart event
Send_9_2_unchecked(w, fr) == Goto(w, fr, "Send_fetch")

Send_9_2(w, fr) ==
    IF w.xhr.generation_id # fr.gen_id THEN Return(w, fr, "Ok")
    ELSE Goto(w, fr, "Send_fetch")

\* Send from "Step 5" on: the request is built and fetched; a synchronous send
\* waits in fetch's loop, an asynchronous one schedules the timeout and returns
Send_fetch(w, fr) ==
    LET f == fetch(w)
    IN  IF w.xhr.sync
        THEN Block(f, [fr EXCEPT !.ctx = Len(f.fetches)], "Send_sync_ret")
        ELSE IF w.xhr.timeout > 0
             THEN Return(set_timeout(f, w.xhr.timeout), fr, "Ok")
             ELSE Return(f, fr, "Ok")

\* fetch's loop has found sync_status set: Send returns it
Send_sync_ret(w, fr) == Return(w, fr, Unwrap(w.fetches[fr.ctx].sync_status))

\* a bug: the error steps run whatever the state
Abort_always_errors(w, fr) ==
    LET t == terminate_ongoing_fetch(w)
    IN  Goto(t, [fr EXCEPT !.gen_id = t.xhr.generation_id,
                           !.msg_id = t.xhr.generation_id,
                           !.progress = "Errored",
                           !.e = "Abort",
                           !.cont = <<"Abort_2">>], "ppr")

\* a bug: the error steps run only for a request that has received nothing yet
Abort_only_when_sending(w, fr) ==
    LET t == terminate_ongoing_fetch(w)
        state == t.xhr.ready_state
    IN  IF state = Opened /\ t.xhr.send_flag
        THEN Goto(t, [fr EXCEPT !.gen_id = t.xhr.generation_id,
                                !.msg_id = t.xhr.generation_id,
                                !.progress = "Errored",
                                !.e = "Abort",
                                !.cont = <<"Abort_2">>], "ppr")
        ELSE Goto(t, fr, "Abort_3")

\* Abort, steps 1 and 2
Abort_(w, fr) ==
    LET t == terminate_ongoing_fetch(w)
        state == t.xhr.ready_state
    IN  IF (state = Opened /\ t.xhr.send_flag) \/ state = HeadersReceived \/ state = Loading
        THEN Goto(t, [fr EXCEPT !.gen_id = t.xhr.generation_id,
                                !.msg_id = t.xhr.generation_id,
                                !.progress = "Errored",
                                !.e = "Abort",
                                !.cont = <<"Abort_2">>], "ppr")
        ELSE Goto(t, fr, "Abort_3")

\* a bug: the generation is not compared after the error steps
Abort_2_unchecked(w, fr) == Goto(w, fr, "Abort_3")

\* Abort after process_partial_response has returned
Abort_2(w, fr) ==
    IF w.xhr.generation_id # fr.gen_id THEN Return(w, fr, "Ok")
    ELSE Goto(w, fr, "Abort_3")

\* a bug: the state is left as the error steps left it
Abort_3_keeps_state(w, fr) == Return(w, fr, "Ok")

\* Abort, step 3
Abort_3(w, fr) == Return([w EXCEPT !.xhr.ready_state = Unsent], fr, "Ok")

----------------------------------------------------------------------------
(* process_partial_response and its callers *)

\* a bug: the message's generation is not compared
fetch_was_terminated_unchecked(w, fr) == FALSE

\* the condition of return_if_fetch_was_terminated!
fetch_was_terminated(w, fr) == fr.msg_id # w.xhr.generation_id

\* a bug: response_status is not looked at
previously_errored_ignored(w) == FALSE

\* the condition of "Ignore messages coming from previously-errored responses"
previously_errored(w) == w.xhr.response_status = "Err"

\* process_partial_response returns to its caller
PprReturn(w, fr) == Goto(w, [fr EXCEPT !.cont = Tail(@)], Head(fr.cont))

\* a bug: the sequence goes on whatever the generation
return_if_fetch_was_terminated_goes_on(w, fr, r) == r

\* return_if_fetch_was_terminated!(); then the block r
return_if_fetch_was_terminated(w, fr, r) ==
    IF fetch_was_terminated(w, fr) THEN PprReturn(w, fr) ELSE r

\* the event type of an error
errormsg(e) ==
    CASE e = "Abort" -> "abort"
      [] e = "Timeout" -> "timeout"
      [] OTHER -> "error"

\* a bug: the status is copied before the upload's events are fired
ppr_HeadersReceived_copies_first(w, fr) ==
    IF w.xhr.ready_state # Opened THEN Panic(w, fr)
    ELSE LET u == [w EXCEPT !.xhr.upload_complete = TRUE,
                            !.xhr.status = IF IsSome(fr.meta.status)
                                           THEN Unwrap(fr.meta.status)[1] ELSE @]
         IN  IF ~u.xhr.sync
             THEN dispatch_upload_progress_event(u, fr, "progress", "ppr_hr_1")
             ELSE Goto(u, fr, "ppr_hr_4")

\* XHRProgress::HeadersReceived, to the first event
ppr_HeadersReceived(w, fr) ==
    IF w.xhr.ready_state # Opened THEN Panic(w, fr)
    ELSE LET u == [w EXCEPT !.xhr.upload_complete = TRUE]
         IN  IF ~u.xhr.sync
             THEN dispatch_upload_progress_event(u, fr, "progress", "ppr_hr_1")
             ELSE Goto(u, fr, "ppr_hr_4")

ppr_hr_1(w, fr) ==
    return_if_fetch_was_terminated(w, fr,
        dispatch_upload_progress_event(w, fr, "load", "ppr_hr_2"))

ppr_hr_2(w, fr) ==
    return_if_fetch_was_terminated(w, fr,
        dispatch_upload_progress_event(w, fr, "loadend", "ppr_hr_3"))

ppr_hr_3(w, fr) == return_if_fetch_was_terminated(w, fr, Goto(w, fr, "ppr_hr_4"))

\* a bug: the state changes to HeadersReceived for a synchronous request too
ppr_hr_4_changes_state(w, fr) ==
    LET status == fr.meta.status
        headers == fr.meta.headers
        s1 == IF IsSome(status)
              THEN [w EXCEPT !.xhr.status = Unwrap(status)[1],
                             !.xhr.status_text = Unwrap(status)[2]]
              ELSE w
        s2 == IF IsSome(headers)
              THEN [s1 EXCEPT !.xhr.response_headers = Unwrap(headers)]
              ELSE s1
        s3 == [s2 EXCEPT !.xhr.response = <<>>,
                         !.xhr.response_reserved = prereserve(headers, w.xhr.pointer_width)]
    IN  change_ready_state(s3, fr, HeadersReceived, "ppr_end")

\* HeadersReceived, "Part of step 13, send() (processing response)"
ppr_hr_4(w, fr) ==
    LET status == fr.meta.status
        headers == fr.meta.headers
        s1 == IF IsSome(status)
              THEN [w EXCEPT !.xhr.status = Unwrap(status)[1],
                             !.xhr.status_text = Unwrap(status)[2]]
              ELSE w
        s2 == IF IsSome(headers)
              THEN [s1 EXCEPT !.xhr.response_headers = Unwrap(headers)]
              ELSE s1
        s3 == [s2 EXCEPT !.xhr.response = <<>>,
                         !.xhr.response_reserved = prereserve(headers, w.xhr.pointer_width)]
    IN  IF ~s3.xhr.sync
        THEN change_ready_state(s3, fr, HeadersReceived, "ppr_end")
        ELSE Goto(s3, fr, "ppr_end")

\* a bug: readystatechange is fired only when the state changes
ppr_Loading_once(w, fr) ==
    LET a == [w EXCEPT !.xhr.response = @ \o fr.chunk]
    IN  IF ~a.xhr.sync
        THEN IF a.xhr.ready_state = HeadersReceived
             THEN Fire([a EXCEPT !.xhr.ready_state = Loading], fr, "xhr", "readystatechange",
                       "ppr_ld_1")
             ELSE dispatch_response_progress_event(a, fr, "progress", "ppr_end")
        ELSE Goto(a, fr, "ppr_end")

\* a bug: the chunk is put in front of the bytes received so far
ppr_Loading_prepends(w, fr) ==
    LET a == [w EXCEPT !.xhr.response = fr.chunk \o @]
    IN  IF ~a.xhr.sync
        THEN LET l == IF a.xhr.ready_state = HeadersReceived
                      THEN [a EXCEPT !.xhr.ready_state = Loading]
                      ELSE a
             IN  Fire(l, fr, "xhr", "readystatechange", "ppr_ld_1")
        ELSE Goto(a, fr, "ppr_end")

\* XHRProgress::Loading, to the readystatechange event
ppr_Loading(w, fr) ==
    LET a == [w EXCEPT !.xhr.response = @ \o fr.chunk]
    IN  IF ~a.xhr.sync
        THEN LET l == IF a.xhr.ready_state = HeadersReceived
                      THEN [a EXCEPT !.xhr.ready_state = Loading]
                      ELSE a
             IN  Fire(l, fr, "xhr", "readystatechange", "ppr_ld_1")
        ELSE Goto(a, fr, "ppr_end")

ppr_ld_1(w, fr) ==
    return_if_fetch_was_terminated(w, fr,
        dispatch_response_progress_event(w, fr, "progress", "ppr_end"))

\* XHRProgress::Done, to the readystatechange event
\* a bug: the assertion leaves out the synchronous requests
ppr_Done_asserts_state(w, fr) ==
    IF w.xhr.ready_state \notin {HeadersReceived, Loading} THEN Panic(w, fr)
    ELSE LET d == [ignore(cancel_timeout(w)) EXCEPT !.xhr.send_flag = FALSE]
         IN  change_ready_state(d, fr, Done, "ppr_dn_1")

\* a bug: send_flag is left set
ppr_Done_keeps_send_flag(w, fr) ==
    IF ~(w.xhr.ready_state \in {HeadersReceived, Loading} \/ w.xhr.sync) THEN Panic(w, fr)
    ELSE change_ready_state(ignore(cancel_timeout(w)), fr, Done, "ppr_dn_1")

ppr_Done(w, fr) ==
    IF ~(w.xhr.ready_state \in {HeadersReceived, Loading} \/ w.xhr.sync) THEN Panic(w, fr)
    ELSE LET d == [ignore(cancel_timeout(w)) EXCEPT !.xhr.send_flag = FALSE]
         IN  change_ready_state(d, fr, Done, "ppr_dn_1")

ppr_dn_1(w, fr) ==
    return_if_fetch_was_terminated(w, fr,
        dispatch_response_progress_event(w, fr, "load", "ppr_dn_2"))

\* a bug: load is fired once more in place of loadend
ppr_dn_2_fires_load(w, fr) ==
    return_if_fetch_was_terminated(w, fr,
        dispatch_response_progress_event(w, fr, "load", "ppr_end"))

ppr_dn_2(w, fr) ==
    return_if_fetch_was_terminated(w, fr,
        dispatch_response_progress_event(w, fr, "loadend", "ppr_end"))

\* a bug: send_flag is left set by an error
ppr_Errored_keeps_send_flag(w, fr) ==
    change_ready_state(discard_subsequent_responses(ignore(cancel_timeout(w))), fr, Done,
                       "ppr_er_1")

\* a bug: an error puts the object back in the state Unsent
ppr_Errored_resets(w, fr) ==
    LET d == discard_subsequent_responses(ignore(cancel_timeout(w)))
    IN  change_ready_state([d EXCEPT !.xhr.send_flag = FALSE], fr, Unsent, "ppr_er_1")

\* XHRProgress::Errored, to the readystatechange event
ppr_Errored(w, fr) ==
    LET d == discard_subsequent_responses(ignore(cancel_timeout(w)))
    IN  change_ready_state([d EXCEPT !.xhr.send_flag = FALSE], fr, Done, "ppr_er_1")

\* a bug: the upload's events are fired whether or not the upload is complete
ppr_er_1_always_upload(w, fr) ==
    return_if_fetch_was_terminated(w, fr,
        dispatch_upload_progress_event([w EXCEPT !.xhr.upload_complete = TRUE],
                                       fr, errormsg(fr.e), "ppr_er_2"))

ppr_er_1(w, fr) ==
    return_if_fetch_was_terminated(w, fr,
        IF ~w.xhr.upload_complete
        THEN dispatch_upload_progress_event([w EXCEPT !.xhr.upload_complete = TRUE],
                                            fr, errormsg(fr.e), "ppr_er_2")
        ELSE Goto(w, fr, "ppr_er_4"))

ppr_er_2(w, fr) ==
    return_if_fetch_was_terminated(w, fr,
        dispatch_upload_progress_event(w, fr, "loadend", "ppr_er_3"))

ppr_er_3(w, fr) == return_if_fetch_was_terminated(w, fr, Goto(w, fr, "ppr_er_4"))

ppr_er_4(w, fr) == dispatch_response_progress_event(w, fr, errormsg(fr.e), "ppr_er_5")

ppr_er_5(w, fr) ==
    return_if_fetch_was_terminated(w, fr,
        dispatch_response_progress_event(w, fr, "loadend", "ppr_end"))

\* process_partial_response, from its entry to the first event of the message
process_partial_response(w, fr) ==
    IF fetch_was_terminated(w, fr) THEN PprReturn(w, fr)
    ELSE IF previously_errored(w) THEN PprReturn(w, fr)
    ELSE CASE fr.progress = "HeadersReceived" -> ppr_HeadersReceived(w, fr)
           [] fr.progress = "Loading" -> ppr_Loading(w, fr)
           [] fr.progress = "Done" -> ppr_Done(w, fr)
           [] fr.progress = "Errored" -> ppr_Errored(w, fr)

\* the message a caller passes to process_partial_response, and where it goes on
Message(fr, gen_id, progress, e, cont) ==
    [fr EXCEPT !.msg_id = gen_id, !.progress = progress, !.e = e, !.cont = <<cont>>]

\* a bug: metadata that is an error is answered with Network, and no Errored
\* message processed
process_headers_available_unprocessed(w, fr) ==
    LET gen_id == w.fetches[fr.ctx].gen_id
    IN  IF ~fr.meta.ok
        THEN Goto(w, Message(fr, gen_id, "Errored", "Network", "process_response_err"),
                  "process_response_err")
        ELSE Goto([w EXCEPT !.xhr.response_url = fr.meta.final_url],
                  Message(fr, gen_id, "HeadersReceived", "", "End"), "ppr")

\* process_headers_available (called by process_response)
process_headers_available(w, fr) ==
    LET gen_id == w.fetches[fr.ctx].gen_id
    IN  IF ~fr.meta.ok
        THEN Goto(w, Message(fr, gen_id, "Errored", "Network", "process_response_err"), "ppr")
        ELSE Goto([w EXCEPT !.xhr.response_url = fr.meta.final_url],
                  Message(fr, gen_id, "HeadersReceived", "", "End"), "ppr")

\* process_response: rv.is_err(), so sync_status is set
process_response_err(w, fr) ==
    End([w EXCEPT !.fetches[fr.ctx].sync_status = Some("Network")], fr)

\* process_data_available (called by process_response_chunk)
process_data_available(w, fr) ==
    Goto(w, Message(fr, w.fetches[fr.ctx].gen_id, "Loading", "", "End"), "ppr")

\* process_response_complete (called by process_response_eof)
process_response_complete(w, fr) ==
    LET gen_id == w.fetches[fr.ctx].gen_id
    IN  IF fr.meta.ok
        THEN Goto(w, Message(fr, gen_id, "Done", "", "process_response_eof_ok"), "ppr")
        ELSE Goto(w, Message(fr, gen_id, "Errored", "Network", "process_response_eof_err"), "ppr")

\* process_response_eof: sync_status is set to what process_response_complete returned
process_response_eof_ok(w, fr) ==
    End([w EXCEPT !.fetches[fr.ctx].sync_status = Some("Ok")], fr)

process_response_eof_err(w, fr) ==
    End([w EXCEPT !.fetches[fr.ctx].sync_status = Some("Network")], fr)

invoke_current_generation(w, fr) ==
    IF w.xhr.ready_state # Done
    THEN Goto(w, Message(fr, w.xhr.generation_id, "Errored", "Timeout", "End"), "ppr")
    ELSE End(w, fr)

\* XHRTimeoutCallback::invoke; the callback's generation_id is in the frame
invoke(w, fr) ==
    IF w.xhr.ready_state # Done
    THEN Goto(w, Message(fr, fr.gen_id, "Errored", "Timeout", "End"), "ppr")
    ELSE End(w, fr)

----------------------------------------------------------------------------
(* Running a handler: from block to block until it fires an event, waits,   *)
(* or ends                                                                 *)

\* the block at fr.pc
Blk(w, fr) ==
    CASE fr.pc = "Open_ret" -> Return(w, fr, "Ok")
      [] fr.pc = "Send_9_1" -> Send_9_1(w, fr)
      [] fr.pc = "Send_9_2" -> Send_9_2(w, fr)
      [] fr.pc = "Send_fetch" -> Send_fetch(w, fr)
      [] fr.pc = "Send_sync_ret" -> Send_sync_ret(w, fr)
      [] fr.pc = "Abort_2" -> Abort_2(w, fr)
      [] fr.pc = "Abort_3" -> Abort_3(w, fr)
      [] fr.pc = "ppr" -> process_partial_response(w, fr)
      [] fr.pc = "ppr_hr_1" -> ppr_hr_1(w, fr)
      [] fr.pc = "ppr_hr_2" -> ppr_hr_2(w, fr)
      [] fr.pc = "ppr_hr_3" -> ppr_hr_3(w, fr)
      [] fr.pc = "ppr_hr_4" -> ppr_hr_4(w, fr)
      [] fr.pc = "ppr_ld_1" -> ppr_ld_1(w, fr)
      [] fr.pc = "ppr_dn_1" -> ppr_dn_1(w, fr)
      [] fr.pc = "ppr_dn_2" -> ppr_dn_2(w, fr)
      [] fr.pc = "ppr_er_1" -> ppr_er_1(w, fr)
      [] fr.pc = "ppr_er_2" -> ppr_er_2(w, fr)
      [] fr.pc = "ppr_er_3" -> ppr_er_3(w, fr)
      [] fr.pc = "ppr_er_4" -> ppr_er_4(w, fr)
      [] fr.pc = "ppr_er_5" -> ppr_er_5(w, fr)
      [] fr.pc = "ppr_end" -> PprReturn(w, fr)
      [] fr.pc = "process_response_err" -> process_response_err(w, fr)
      [] fr.pc = "process_response_eof_ok" -> process_response_eof_ok(w, fr)
      [] fr.pc = "process_response_eof_err" -> process_response_eof_err(w, fr)
      [] fr.pc = "End" -> End(w, fr)

\* r is what a block handed back; the world when the handler next stops.  A failed
\* assert! unwinds every handler
RECURSIVE Run(_)
Run(r) ==
    CASE r.ctl = "goto" -> Run(Blk(r.w, r.fr))
      [] r.ctl \in {"observer", "yield", "sync_wait"} ->
            [r.w EXCEPT !.stack = Append(@, [r.fr EXCEPT !.at = r.ctl])]
      [] r.ctl = "end" -> r.w
      [] r.ctl = "panic" -> [r.w EXCEPT !.panic = TRUE, !.stack = <<>>]

\* the value a call returns, when the block result r ends it without an event
RECURSIVE Result(_)
Result(r) ==
    CASE r.ctl = "goto" -> Result(Blk(r.w, r.fr))
      [] r.ctl = "end" -> r.val
      [] OTHER -> "pending"

Top(w) == w.stack[Len(w.stack)]
Pop(w) == [w EXCEPT !.stack = SubSeq(@, 1, Len(@) - 1)]

\* the innermost suspended handler goes on
Resume(w) == Run(Goto(Pop(w), Top(w), Top(w).pc))

----------------------------------------------------------------------------
(* Calls of script, at the top level (a task of the event loop) or from an  *)
(* observer                                                                *)

DoOpen(w, method, url, async, active) ==
    Run(Open_(w, Frame("Open", "Open_"), method, url, async, active))
DoSetRequestHeader(w, name, value) ==
    Run(SetRequestHeader_(w, Frame("SetRequestHeader", "SetRequestHeader_"), name, value))
DoSetTimeout(w, timeout) == Run(SetTimeout_(w, Frame("SetTimeout", "SetTimeout_"), timeout))
DoSetResponseType(w, response_type) ==
    Run(SetResponseType_(w, Frame("SetResponseType", "SetResponseType_"), response_type))
DoOverrideMimeType(w, mime) ==
    Run(OverrideMimeType_(w, Frame("OverrideMimeType", "OverrideMimeType_"), mime))
DoSend(w, data) == Run(Send_(w, Frame("Send", "Send_"), data))
DoAbort(w) == Run(Abort_(w, Frame("Abort", "Abort_")))

----------------------------------------------------------------------------
(* The fetch service and the timer service                                 *)

\* PreInvoke::should_invoke for XHRContext
should_invoke(w, ctx) == w.xhr.generation_id = w.fetches[ctx].gen_id

EventFrame(proc, meta, chunk) ==
    [Frame(proc, proc) EXCEPT !.meta = meta, !.chunk = chunk]

\* the entry blocks of the FetchResponseListener methods
ListenerBlk(w, fr) ==
    CASE fr.proc = "process_response" -> process_headers_available(w, fr)
      [] fr.proc = "process_response_chunk" -> process_data_available(w, fr)
      [] fr.proc = "process_response_eof" -> process_response_complete(w, fr)

\* NetworkListener::notify_fetch: the task that delivers a fetch message runs
\* the listener's method only if should_invoke holds when the task runs
notify_fetch(w, fr) ==
    IF should_invoke(w, fr.ctx) THEN Run(ListenerBlk(w, fr)) ELSE w

\* the fetch service delivers the response's metadata (process_response)
DoProcessResponse(w, ctx, meta) ==
    notify_fetch([w EXCEPT !.fetches[ctx].phase = IF @ = "detached" THEN @
                                                  ELSE IF meta.ok THEN "body" ELSE "failed"],
                 [EventFrame("process_response", meta, <<>>) EXCEPT !.ctx = ctx])

\* the fetch service delivers a chunk of the body (process_response_chunk)
DoProcessResponseChunk(w, ctx, chunk) ==
    notify_fetch(IF w.fetches[ctx].phase = "detached" THEN w
                 ELSE [w EXCEPT !.fetches[ctx].sent = @ \o chunk],
                 [EventFrame("process_response_chunk", NoMeta, chunk) EXCEPT !.ctx = ctx])

\* the fetch service delivers the end of the response (process_response_eof)
DoProcessResponseEof(w, ctx, ok) ==
    notify_fetch([w EXCEPT !.fetches[ctx].phase = IF @ = "detached" THEN @ ELSE "closed"],
                 [EventFrame("process_response_eof", [NoMeta EXCEPT !.ok = ok], <<>>)
                     EXCEPT !.ctx = ctx])

\* the timer service runs a scheduled XHRTimeoutCallback
DoTimeout(w, t) ==
    Run(invoke([w EXCEPT !.timers = @ \ {t}],
               [Frame("invoke", "invoke") EXCEPT !.gen_id = t.generation_id]))

---------------------------------------------------------------------------------------------------------------------------------------------------
(* Inputs *)

Methods == {GET, HEAD, POST, TRACK}
Urls == {"http://a/"} \cup BadUrls
Timeouts == {0, 5}
Bodies == {None, Some(<<>>), Some(<<120>>)}
Chunks == {<<104>>, <<255>>}
Mimes == {"text/plain", "text/html;charset=utf-8", "text/xml;charset=bogus", "bogus"}
ResponseTypes == {"", "text", "document", "json"}
HeaderNames == {<<88>>, <<120>>, <<89>>, TE, <<64>>}
HeaderValues == {<<97>>, <<98>>, <<32, 97>>, <<>>, <<97, 10, 98>>}
OkMeta == [ok |-> TRUE, final_url |-> "http://a/", headers |-> Some({}),
           status |-> Some(<<200, "OK">>)]
Metas == {OkMeta, NoMeta}
\* a response's headers are pairs of a name and the values received under it
HtmlMeta == [OkMeta EXCEPT !.headers = Some({<<"content-type", <<"text/html;charset=utf-8">> >>})]
ReadMetas == {OkMeta, NoMeta, HtmlMeta}
\* slices for is_field_value: all of up to MaxValueLen bytes, a byte of each kind
\* (CR, LF, SP, HT, a letter, two controls, a non-ASCII byte), and four longer ones
FieldBytes == {CR, LF, SP, HT, 97, 1, 127, 200}
Slices ==
    UNION {[1..n -> FieldBytes] : n \in 0..MaxValueLen}
        \cup {<<118, 97, 108, 117, 101>>,
              <<108, 105, 110, 101, 49, CR, LF, SP, 118, 97, 108, 117, 101, 50>>,
              <<118, 97, 1, 108, 117, 101>>,
              <<108, 105, 110, 101, 49, CR, LF, 118, 97, 108, 117, 101, 50>>}
HeaderMetas ==
    {NoMeta,
     [OkMeta EXCEPT !.headers = Some({<<"x-a", <<"1", "2">> >>, <<"set-cookie", <<"c">> >>})],
     [OkMeta EXCEPT !.headers = Some({<<"x-a", <<"1">> >>, <<"x-b", <<"2", "3", "4">> >>,
                                      <<"set-cookie2", <<"c", "d">> >>})]}
LengthMetas ==
    {OkMeta, NoMeta}
        \cup {[OkMeta EXCEPT !.headers = Some({<<"content-length", <<l.text>> >>})] :
                 l \in LengthTable}
        \cup {[OkMeta EXCEPT !.headers = Some({<<"content-length", <<"5", "5">> >>})]}
XMLHttpRequestResponseType == {"", "arraybuffer", "blob", "document", "json", "text"}

----------------------------------------------------------------------------
(* Actions *)

InitIn(globals) ==
    /\ xhr \in {NewXhr(g) : g \in globals}
    /\ fetches = <<>>
    /\ timers = {}
    /\ log = <<>>
    /\ stack = <<>>
    /\ panic = FALSE
    /\ field_value = None

\* script runs: as a task of the event loop, or inside an observer
CanCall ==
    /\ ~panic
    /\ IF stack = <<>> THEN TRUE ELSE Top(World).at = "observer"
    /\ Len(stack) < MaxDepth

\* a task of the event loop can run
CanRunTask == ~panic /\ stack = <<>>

\* the messages of fetch ctx are delivered by tasks of the event loop; those of a
\* synchronous fetch by the loop of fetch() that waits for it, until sync_status is set
CanDeliver(ctx) ==
    /\ ~panic
    /\ IF fetches[ctx].sync
       THEN /\ stack # <<>>
            /\ Top(World).at = "sync_wait"
            /\ Top(World).ctx = ctx
            /\ fetches[ctx].sync_status = None
       ELSE stack = <<>>

Open(methods, asyncs) ==
    /\ CanCall
    /\ xhr.generation_id < MaxGen
    /\ \E method \in methods, url \in Urls, async \in asyncs, active \in BOOLEAN :
          Commit(DoOpen(World, method, url, async, active))

SetRequestHeader(names, values) ==
    /\ CanCall
    /\ \E name \in names, value \in values :
          /\ \A p \in xhr.request_headers :
                p[1] = to_lower(name) => Len(p[2]) + 2 + Len(value) <= MaxValueLen
          /\ Commit(DoSetRequestHeader(World, name, value))

SetTimeout ==
    /\ CanCall
    /\ \E timeout \in Timeouts : Commit(DoSetTimeout(World, timeout))

SetResponseType(types) ==
    /\ CanCall
    /\ \E response_type \in types : Commit(DoSetResponseType(World, response_type))

Send(bodies) ==
    /\ CanCall
    /\ \E data \in bodies : Commit(DoSend(World, data))

Abort ==
    /\ CanCall
    /\ xhr.generation_id < MaxGen
    /\ Commit(DoAbort(World))

\* the observers of the event being dispatched return
ObserverReturn ==
    /\ ~panic
    /\ stack # <<>>
    /\ Top(World).at = "observer"
    /\ Commit(Resume(World))

\* a synchronous Send goes on to build and fetch the request
SendContinue ==
    /\ ~panic
    /\ stack # <<>>
    /\ Top(World).at = "yield"
    /\ Commit(Resume(World))

\* the loop of fetch() finds sync_status set, and Send returns
SyncReturn ==
    /\ ~panic
    /\ stack # <<>>
    /\ Top(World).at = "sync_wait"
    /\ IsSome(fetches[Top(World).ctx].sync_status)
    /\ Commit(Resume(World))

ProcessResponse ==
    \E ctx \in 1..Len(fetches), meta \in Metas :
        /\ CanDeliver(ctx)
        /\ fetches[ctx].phase \in {"headers", "detached"}
        /\ Commit(DoProcessResponse(World, ctx, meta))

ProcessResponseWith(metas) ==
    \E ctx \in 1..Len(fetches), meta \in metas :
        /\ CanDeliver(ctx)
        /\ fetches[ctx].phase \in {"headers", "detached"}
        /\ Commit(DoProcessResponse(World, ctx, meta))

ProcessResponseChunk(chunks) ==
    \E ctx \in 1..Len(fetches), chunk \in chunks :
        /\ CanDeliver(ctx)
        /\ fetches[ctx].phase \in {"body", "detached"}
        /\ Len(fetches[ctx].sent) < MaxChunks
        /\ Commit(DoProcessResponseChunk(World, ctx, chunk))

ProcessResponseEof ==
    \E ctx \in 1..Len(fetches), ok \in BOOLEAN :
        /\ CanDeliver(ctx)
        /\ fetches[ctx].phase \in {"body", "failed", "detached"}
        /\ fetches[ctx].phase = "failed" => ~ok
        /\ Commit(DoProcessResponseEof(World, ctx, ok))

TimeoutFire ==
    /\ CanRunTask
    /\ \E t \in timers : Commit(DoTimeout(World, t))

\* is_field_value is public: some caller gives it a slice; one call is followed
IsFieldValue(slices) ==
    /\ field_value = None
    /\ \E slice \in slices :
          field_value' = Some([slice |-> slice, accepted |-> is_field_value(slice)])
    /\ UNCHANGED <<xhr, fetches, timers, log, stack, panic>>

\* script reads the response, the responseText or the responseXML attribute, in a
\* task of its own
ReadResponse ==
    /\ CanRunTask
    /\ \E read \in {Response(World), GetResponseText(World), GetResponseXML(World)} :
          Commit(read.w)

OverrideMimeType ==
    /\ CanCall
    /\ \E mime \in Mimes : Commit(DoOverrideMimeType(World, mime))

----------------------------------------------------------------------------
(* Spec: the life cycle of a request in a window, synchronous or not, with  *)
(* observers that call back into the object                                *)

Init == InitIn({"Window"})

Next ==
    \/ Open(Methods, BOOLEAN)
    \/ Send(Bodies)
    \/ Abort
    \/ ObserverReturn
    \/ SendContinue
    \/ SyncReturn
    \/ ProcessResponse
    \/ ProcessResponseChunk({<<104>>})
    \/ ProcessResponseEof

Spec == Init /\ [][Next]_vars

----------------------------------------------------------------------------
(* SpecTimer: asynchronous requests with timeouts                          *)

NextTimer ==
    \/ Open({GET, POST, TRACK}, {TRUE})
    \/ SetTimeout
    \/ Send({None, Some(<<120>>)})
    \/ Abort
    \/ ObserverReturn
    \/ ProcessResponse
    \/ ProcessResponseChunk({<<104>>})
    \/ ProcessResponseEof
    \/ TimeoutFire

SpecTimer == Init /\ [][NextTimer]_vars

----------------------------------------------------------------------------
(* SpecStream: asynchronous requests whose observers call nothing, with    *)
(* bodies of different chunks                                              *)

OpenTask == stack = <<>> /\ Open({GET}, {TRUE})
SendTask == stack = <<>> /\ Send({None})

NextStream ==
    \/ OpenTask
    \/ SendTask
    \/ ObserverReturn
    \/ ProcessResponse
    \/ ProcessResponseChunk(Chunks)
    \/ ProcessResponseEof

SpecStream == Init /\ [][NextStream]_vars

----------------------------------------------------------------------------
(* SpecHeaders: the request headers of an opened request                   *)

NextHeaders ==
    \/ Open({GET}, {TRUE})
    \/ SetRequestHeader(HeaderNames, HeaderValues)
    \/ ObserverReturn

SpecHeaders == Init /\ [][NextHeaders]_vars

----------------------------------------------------------------------------
(* SpecOpen: requests opened with a timeout and a response type set, and    *)
(* opened again while they are sent and received                           *)

NextOpen ==
    \/ Open({GET, TRACK}, BOOLEAN)
    \/ stack = <<>> /\ SetTimeout
    \/ stack = <<>> /\ SetResponseType({"", "text"})
    \/ stack = <<>> /\ SetRequestHeader({<<88>>}, {<<97>>})
    \/ stack = <<>> /\ Send({None})
    \/ ObserverReturn
    \/ SendContinue
    \/ SyncReturn
    \/ ProcessResponse
    \/ ProcessResponseChunk({<<104>>})
    \/ ProcessResponseEof

SpecOpen == Init /\ [][NextOpen]_vars

----------------------------------------------------------------------------
(* SpecRead: asynchronous requests in a window whose response is read, in   *)
(* every state and under every response type                               *)

NextRead ==
    \/ OpenTask
    \/ SendTask
    \/ stack = <<>> /\ SetResponseType(XMLHttpRequestResponseType)
    \/ ObserverReturn
    \/ ProcessResponseWith(ReadMetas)
    \/ ProcessResponseChunk({<<49>>})
    \/ ProcessResponseEof
    \/ ReadResponse

SpecRead == Init /\ [][NextRead]_vars

----------------------------------------------------------------------------
(* SpecType: requests in a window and in a worker, synchronous or not,      *)
(* whose response type and mime type script sets between tasks             *)

InitType == InitIn({"Window", "Worker"})

NextType ==
    \/ stack = <<>> /\ Open({GET}, BOOLEAN)
    \/ SendTask
    \/ stack = <<>> /\ SetResponseType(XMLHttpRequestResponseType)
    \/ stack = <<>> /\ OverrideMimeType
    \/ ObserverReturn
    \/ SendContinue
    \/ SyncReturn
    \/ ProcessResponse
    \/ ProcessResponseChunk({<<104>>})
    \/ ProcessResponseEof

SpecType == InitType /\ [][NextType]_vars

----------------------------------------------------------------------------
(* SpecLength: asynchronous requests whose responses come with a content    *)
(* length, in builds of either pointer width                               *)

InitLength ==
    /\ xhr \in {[NewXhr("Window") EXCEPT !.pointer_width = width] : width \in {32, 64}}
    /\ fetches = <<>>
    /\ timers = {}
    /\ log = <<>>
    /\ stack = <<>>
    /\ panic = FALSE
    /\ field_value = None

NextLength ==
    \/ OpenTask
    \/ SendTask
    \/ ObserverReturn
    \/ ProcessResponseWith(LengthMetas)
    \/ ProcessResponseChunk({<<104>>})
    \/ ProcessResponseEof

SpecLength == InitLength /\ [][NextLength]_vars

----------------------------------------------------------------------------
(* SpecResponseHeaders: asynchronous requests whose responses come with     *)
(* headers of one and of several values                                    *)

NextResponseHeaders ==
    \/ OpenTask
    \/ SendTask
    \/ ObserverReturn
    \/ ProcessResponseWith(HeaderMetas)
    \/ ProcessResponseChunk({<<104>>})
    \/ ProcessResponseEof

SpecResponseHeaders == Init /\ [][NextResponseHeaders]_vars

----------------------------------------------------------------------------
(* SpecFieldValue: a call of is_field_value                                 *)

NextFieldValue == IsFieldValue(Slices)

SpecFieldValue == Init /\ [][NextFieldValue]_vars

----------------------------------------------------------------------------
(* SpecSync: the requests of SpecOpen, in a window and in a worker           *)

SpecSync == InitType /\ [][NextOpen]_vars

----------------------------------------------------------------------------
(* SpecLive: asynchronous requests with timeouts, called by tasks, where    *)
(* the observers of an event return: the dispatch of an event is a call,    *)
(* and the handler goes on when it returns                                 *)

NextLive ==
    \/ stack = <<>> /\ Open({GET, POST}, {TRUE})
    \/ stack = <<>> /\ SetTimeout
    \/ stack = <<>> /\ Send({None, Some(<<120>>)})
    \/ stack = <<>> /\ Abort
    \/ ObserverReturn
    \/ ProcessResponse
    \/ ProcessResponseChunk({<<104>>})
    \/ ProcessResponseEof
    \/ TimeoutFire

\* ENABLED <<ObserverReturn>>_vars: the step takes the frame off the stack or
\* changes it
ObserverRuns == ~panic /\ stack # <<>> /\ Top(World).at = "observer"

\* WF_vars(ObserverReturn), with its ENABLED written as the state predicate
ObserversReturn == []<>(~ObserverRuns) \/ []<><<ObserverReturn>>_vars

SpecLive == Init /\ [][NextLive]_vars /\ ObserversReturn

----------------------------------------------------------------------------
(* SpecAbort: the life cycle of Spec, where the observers of the events of  *)
(* an abort may call open or abort once more                               *)

\* an observer of an event fired by Abort is running
InAbort ==
    /\ ~panic
    /\ stack # <<>>
    /\ Top(World).proc = "Abort"
    /\ Top(World).at = "observer"
    /\ Len(stack) < MaxDepth
    /\ xhr.generation_id <= MaxGen

OpenInAbort ==
    /\ InAbort
    /\ \E async \in BOOLEAN : Commit(DoOpen(World, GET, "http://a/", async, TRUE))

AbortInAbort == InAbort /\ Commit(DoAbort(World))

NextAbort ==
    \/ Next
    \/ OpenInAbort
    \/ AbortInAbort

SpecAbort == Init /\ [][NextAbort]_vars

----------------------------------------------------------------------------
(* Properties of the life cycle.  A call "at this state" is the operation   *)
(* applied to the current state; OpenInputs are the arguments of open      *)

OpenErrors == {"InvalidState", "Syntax", "Security", "InvalidAccess"}

OpenResult(method, url, async, active) ==
    Result(Open_(World, Frame("Open", "Open_"), method, url, async, active))

OpenStep ==
    \E method \in Methods, url \in Urls, async \in BOOLEAN, active \in BOOLEAN :
        Commit(DoOpen(World, method, url, async, active))

AbortStep == Commit(DoAbort(World))

\* a step that delivers a message of a fetch, or runs a timeout callback, of
\* another generation than the object's
StaleEventStep ==
    \/ \E ctx \in 1..Len(fetches) :
          /\ fetches[ctx].gen_id # xhr.generation_id
          /\ CanDeliver(ctx)
          /\ \/ \E meta \in Metas : Commit(DoProcessResponse(World, ctx, meta))
             \/ \E chunk \in Chunks : Commit(DoProcessResponseChunk(World, ctx, chunk))
             \/ \E ok \in BOOLEAN : Commit(DoProcessResponseEof(World, ctx, ok))
    \/ \E t \in timers :
          /\ CanRunTask
          /\ t.generation_id # xhr.generation_id
          /\ Commit(DoTimeout(World, t))

\* C1: an event (the response's metadata, a chunk, its end, an error, a timeout
\* callback) of another generation than the object's current one changes no
\* field of the object, fires no event and leaves no handler in progress
C1_StaleEventChangesNothing ==
    [][StaleEventStep => xhr' = xhr /\ log' = log /\ stack' = stack]_vars

\* the timeout of a request that open has replaced has fired: its handle is
\* still stored, and nothing is scheduled any more
C1_StaleTimeoutFired ==
    /\ timers = {}
    /\ IsSome(xhr.timeout_cancel)
    /\ xhr.ready_state = Opened
    /\ ~xhr.send_flag
    /\ xhr.generation_id = 2

\* C2, as stated: at every state that opens and other calls lead to, any call of
\* open advances the generation by exactly one
C2_EveryOpenIncrements ==
    \A method \in Methods, url \in Urls, async \in BOOLEAN, active \in BOOLEAN :
        DoOpen(World, method, url, async, active).xhr.generation_id
            = xhr.generation_id + 1

\* C2, amended: a call of open that is accepted advances the generation by
\* exactly one, and one that fails with an error leaves the whole state as it was
C2_AcceptedOpenIncrements ==
    \A method \in Methods, url \in Urls, async \in BOOLEAN, active \in BOOLEAN :
        IF OpenResult(method, url, async, active) \in OpenErrors
        THEN DoOpen(World, method, url, async, active) = World
        ELSE DoOpen(World, method, url, async, active).xhr.generation_id
                = xhr.generation_id + 1

\* two opens have been accepted one after the other, and nothing was sent
C2_OpenedTwice ==
    /\ xhr.generation_id = 2
    /\ xhr.ready_state = Opened
    /\ fetches = <<>>
    /\ Len(log) = 1
    /\ stack = <<>>

\* the calls that are one step leave the generation as it is
C3_OtherCallsKeepGeneration ==
    /\ \A data \in Bodies : DoSend(World, data).xhr.generation_id = xhr.generation_id
    /\ \A name \in HeaderNames, value \in HeaderValues :
          DoSetRequestHeader(World, name, value).xhr.generation_id = xhr.generation_id
    /\ \A timeout \in Timeouts :
          DoSetTimeout(World, timeout).xhr.generation_id = xhr.generation_id
    /\ \A mime \in Mimes :
          DoOverrideMimeType(World, mime).xhr.generation_id = xhr.generation_id
    /\ \A response_type \in ResponseTypes :
          DoSetResponseType(World, response_type).xhr.generation_id = xhr.generation_id

\* C3: the generation never decreases; a step changes it only if it is a call of
\* open or of abort, and then by exactly one; send, setRequestHeader, setTimeout,
\* overrideMimeType and setResponseType, the processing of events (by the handlers
\* and as they go on after an observer) and the timeout callbacks leave it as it is
C3_GenerationOnlyByOpenAndAbort ==
    /\ [][\/ xhr'.generation_id = xhr.generation_id
          \/ /\ xhr'.generation_id = xhr.generation_id + 1
             /\ OpenStep \/ AbortStep]_vars
    /\ []C3_OtherCallsKeepGeneration

\* an abort has advanced the generation of a request that was being received
C3_AbortedWhileReceiving ==
    /\ xhr.generation_id = 2
    /\ xhr.ready_state = Unsent
    /\ \E i \in 1..Len(log) : log[i].type = "abort"
    /\ \E i \in 1..Len(log) : log[i].ready_state = HeadersReceived

\* C4: abort called when the state is Unsent fires no event, leaves no handler
\* in progress and leaves the state Unsent, and so does the abort after it
C4_AbortInUnsent ==
    xhr.ready_state = Unsent =>
        LET a == DoAbort(World)
            b == DoAbort(a)
        IN  /\ a.xhr.ready_state = Unsent /\ a.log = log /\ a.stack = stack
            /\ b.xhr.ready_state = Unsent /\ b.log = log /\ b.stack = stack

\* abort has been called twice on a new object
C4_AbortedTwice ==
    /\ xhr.ready_state = Unsent
    /\ xhr.generation_id = 2
    /\ log = <<>>
    /\ fetches = <<>>
    /\ stack = <<>>

\* the handlers in progress above the n outermost go on to their end, none of
\* their observers calling anything
RECURSIVE Quiesce(_, _)
Quiesce(w, n) ==
    IF w.panic \/ Len(w.stack) <= n \/ Top(w).at # "observer" THEN w
    ELSE Quiesce(Resume(w), n)

\* the states one message of fetch ctx can lead to from w
AfterEvent(w, ctx) ==
    {Quiesce(DoProcessResponse(w, ctx, meta), 0) : meta \in Metas}
        \cup {Quiesce(DoProcessResponseChunk(w, ctx, chunk), 0) : chunk \in Chunks}
        \cup {Quiesce(DoProcessResponseEof(w, ctx, ok), 0) : ok \in BOOLEAN}

Types(events) == [i \in 1..Len(events) |-> events[i].type]

\* an asynchronous GET has been sent, and no message of its fetch delivered
C5_JustSent ==
    /\ ~panic
    /\ stack = <<>>
    /\ xhr.ready_state = Opened
    /\ xhr.send_flag
    /\ ~xhr.sync
    /\ xhr.request_method = GET
    /\ xhr.canceller # 0
    /\ fetches[xhr.canceller].phase = "headers"

\* C5: when abort is called after open(GET) and an asynchronous send, before any
\* message of the fetch is delivered, the state ends Unsent and the generation is
\* one more than before the abort; abort fires nothing of the processing of
\* HeadersReceived or Done (no event at state HeadersReceived or Loading, no
\* load), and no message of the aborted fetch that is delivered afterwards, nor
\* one after it, changes a field of the object or fires an event
C5_AbortAfterSend ==
    C5_JustSent =>
        LET ctx == xhr.canceller
            a == Quiesce(DoAbort(World), 0)
            fired == SubSeq(a.log, Len(log) + 1, Len(a.log))
        IN  /\ a.stack = <<>>
            /\ a.xhr.ready_state = Unsent
            /\ a.xhr.generation_id = xhr.generation_id + 1
            /\ \A i \in 1..Len(fired) :
                  /\ fired[i].ready_state \notin {HeadersReceived, Loading}
                  /\ fired[i].type # "load"
            /\ \A b \in AfterEvent(a, ctx) :
                  /\ b.xhr = a.xhr /\ b.log = a.log /\ b.stack = <<>>
                  /\ \A c \in AfterEvent(b, ctx) :
                        c.xhr = a.xhr /\ c.log = a.log /\ c.stack = <<>>

\* the abort of a GET that had just been sent has ended
C5_AbortedAfterSend ==
    /\ stack = <<>>
    /\ xhr.ready_state = Unsent
    /\ xhr.request_method = GET
    /\ Types(log) = <<"loadstart", "readystatechange", "abort", "loadend">>

\* fetch ctx is that of the current generation, and the handler of the end of
\* its response has returned Ok
C6_Received(ctx) ==
    /\ stack = <<>>
    /\ fetches[ctx].gen_id = xhr.generation_id
    /\ ~fetches[ctx].sync
    /\ fetches[ctx].phase = "closed"
    /\ fetches[ctx].sync_status = Some("Ok")

\* the places in the log of the events of that type fired on the object itself
Fired(type) == {i \in 1..Len(log) : log[i].target = "xhr" /\ log[i].type = type}

\* C6: when an asynchronous request has been sent and its fetch has delivered the
\* metadata, chunks and the end of the response, no observer calling anything, the
\* state is Done, the text response is the decoding of the chunks put together in
\* the order they came, one load and one loadend have been fired on the object,
\* load before loadend and both after the readystatechange to Done, and no
\* error, abort or timeout
C6_ReceivedInOrder ==
    \A ctx \in 1..Len(fetches) :
        C6_Received(ctx) =>
            /\ xhr.ready_state = Done
            /\ text_response(xhr) = Utf8Decode(fetches[ctx].sent)
            /\ Cardinality(Fired("load")) = 1
            /\ Cardinality(Fired("loadend")) = 1
            /\ \E i \in Fired("readystatechange"), j \in Fired("load"), k \in Fired("loadend") :
                  log[i].ready_state = Done /\ i < j /\ j < k
            /\ Fired("error") \cup Fired("abort") \cup Fired("timeout") = {}

\* a response of two different chunks has been received to its end
C6_TwoChunksReceived ==
    \E ctx \in 1..Len(fetches) :
        C6_Received(ctx) /\ fetches[ctx].sent = <<104, 255>>

\* the generation a handler in progress works for
FrameGeneration(fr) == IF fr.proc = "Send" THEN fr.gen_id ELSE fr.msg_id

\* the observers of an event return to a handler whose generation an open or an
\* abort called meanwhile has replaced
InterruptedResume ==
    /\ ~panic
    /\ stack # <<>>
    /\ Top(World).at = "observer"
    /\ Top(World).proc \in {"Send", "Abort", "process_response", "process_response_chunk",
                            "process_response_eof", "invoke"}
    /\ FrameGeneration(Top(World)) # xhr.generation_id
    /\ Commit(Resume(World))

\* C7: when an observer called in the middle of the sequence of send, of the
\* processing of HeadersReceived, Loading, Done or Errored, or of abort, has called
\* an open or an abort that replaced the generation, the sequence ends as the
\* observer returns: no event is fired, no field of the object changes, nothing is
\* fetched or scheduled
C7_InterruptedSequenceEnds ==
    [][InterruptedResume =>
          /\ xhr' = xhr
          /\ log' = log
          /\ timers' = timers
          /\ Len(fetches') = Len(fetches)
          /\ stack' = Pop(World).stack]_vars

\* a sequence has ended at the readystatechange to Done, without the events after it
C7_CutAfterReadyStateChange ==
    /\ ~panic
    /\ stack = <<>>
    /\ log # <<>>
    /\ log[Len(log)].type = "readystatechange"
    /\ log[Len(log)].ready_state = Done

\* C8, as stated: after two accepted calls of setRequestHeader with names that are
\* the same but for case, not present before, and values a then b, there is one
\* header of that name, its value a, ", ", b, and the other headers are as before;
\* an accepted call with a name not present leaves a header with the value alone
C8_ValuesCombinedAsGiven ==
    \A n1 \in HeaderNames, n2 \in HeaderNames, a \in HeaderValues, b \in HeaderValues :
        LET name == to_lower(n1)
            fr == Frame("SetRequestHeader", "SetRequestHeader_")
            w1 == DoSetRequestHeader(World, n1, a)
            w2 == DoSetRequestHeader(w1, n2, b)
            h1 == w1.xhr.request_headers
            h2 == w2.xhr.request_headers
        IN  /\ to_lower(n2) = name
            /\ ~contains_key(xhr.request_headers, name)
            /\ Result(SetRequestHeader_(World, fr, n1, a)) = "Ok"
            /\ Result(SetRequestHeader_(w1, fr, n2, b)) = "Ok"
            => /\ {p \in h1 : p[1] = name} = {<<name, a>>}
               /\ {p \in h2 : p[1] = name} = {<<name, a \o <<44, 32>> \o b>>}
               /\ {p \in h2 : p[1] # name} = {p \in xhr.request_headers : p[1] # name}

\* C8, amended: the same of the values with the HTTP whitespace at their ends
\* removed, for a name that is not forbidden; accepted calls with a forbidden name
\* leave the headers as they are
C8_TrimmedValuesCombined ==
    \A n1 \in HeaderNames, n2 \in HeaderNames, a \in HeaderValues, b \in HeaderValues :
        LET name == to_lower(n1)
            fr == Frame("SetRequestHeader", "SetRequestHeader_")
            w1 == DoSetRequestHeader(World, n1, a)
            w2 == DoSetRequestHeader(w1, n2, b)
            h1 == w1.xhr.request_headers
            h2 == w2.xhr.request_headers
            ta == trim_http_whitespace(a)
            tb == trim_http_whitespace(b)
        IN  /\ to_lower(n2) = name
            /\ ~contains_key(xhr.request_headers, name)
            /\ Result(SetRequestHeader_(World, fr, n1, a)) = "Ok"
            /\ Result(SetRequestHeader_(w1, fr, n2, b)) = "Ok"
            => IF is_forbidden_header_name(name)
               THEN h1 = xhr.request_headers /\ h2 = xhr.request_headers
               ELSE /\ {p \in h1 : p[1] = name} = {<<name, ta>>}
                    /\ {p \in h2 : p[1] = name} = {<<name, ta \o <<44, 32>> \o tb>>}
                    /\ {p \in h2 : p[1] # name} = {p \in xhr.request_headers : p[1] # name}

\* a header holds "a, b"
C8_HeaderCombined ==
    \E p \in xhr.request_headers : p[2] = <<97, 44, 32, 98>>

\* C9: when the state is not Opened or the send flag is set, setRequestHeader and
\* send return InvalidState and leave everything as it is: the fields of the
\* object, the events fired, the handlers in progress, the fetches and the timers
C9_RejectedUnlessOpenedAndNotSending ==
    xhr.ready_state # Opened \/ xhr.send_flag =>
        /\ \A data \in Bodies :
              /\ Result(Send_(World, Frame("Send", "Send_"), data)) = "InvalidState"
              /\ DoSend(World, data) = World
        /\ \A name \in HeaderNames, value \in HeaderValues :
              /\ Result(SetRequestHeader_(World, Frame("SetRequestHeader", "SetRequestHeader_"),
                                          name, value)) = "InvalidState"
              /\ DoSetRequestHeader(World, name, value) = World

\* an observer of the loadstart event of a send is running: the state is Opened
\* and the send flag set
C9_ObserverWhileSending ==
    /\ stack # <<>>
    /\ Top(World).proc = "Send"
    /\ Top(World).at = "observer"
    /\ xhr.ready_state = Opened
    /\ xhr.send_flag

\* C10: a send that is accepted has set upload_complete when it fires its first
\* event (of an asynchronous send) or goes on to the fetch (of a synchronous one),
\* nothing being fetched yet and no event fired before: to TRUE if there is no body,
\* the method is GET or HEAD, or the body has no bytes, and to FALSE otherwise
C10_UploadCompleteBeforeEventsAndFetch ==
    xhr.ready_state = Opened /\ ~xhr.send_flag =>
        \A data \in Bodies :
            LET r == Send_(World, Frame("Send", "Send_"), data)
                nothing_to_upload ==
                    \/ data = None
                    \/ xhr.request_method \in {GET, HEAD}
                    \/ Len(Unwrap(data)) = 0
            IN  /\ r.w.xhr.upload_complete = nothing_to_upload
                /\ r.w.fetches = fetches
                /\ r.w.timers = timers
                /\ IF xhr.sync
                   THEN r.ctl = "yield" /\ r.w.log = <<>>
                   ELSE r.ctl = "observer" /\ Types(r.w.log) = <<"loadstart">>

\* an observer of the loadstart event of the send of a body is running, and
\* upload_complete is FALSE
C10_SendingBody ==
    /\ stack # <<>>
    /\ Top(World).proc = "Send"
    /\ Top(World).pc = "Send_9_1"
    /\ ~xhr.upload_complete
    /\ xhr.request_body_len > 0

\* an asynchronous send would be accepted
C11_Sending == ~panic /\ xhr.ready_state = Opened /\ ~xhr.send_flag /\ ~xhr.sync

\* the states an observer running in w leaves when it calls abort, or an open
\* that is accepted, and returns
C11_Interrupted(w) ==
    { Quiesce(DoAbort(w), Len(w.stack)),
      Quiesce(DoOpen(w, GET, "http://a/", TRUE, TRUE), Len(w.stack)) }

\* the handler suspended in w goes on and returns Ok at once: nothing is fired,
\* fetched, scheduled or changed
C11_Stopped(w) ==
    LET r == Resume(w)
    IN  /\ Result(Goto(Pop(w), Top(w), Top(w).pc)) = "Ok"
        /\ r.xhr = w.xhr /\ r.log = w.log
        /\ r.fetches = w.fetches /\ r.timers = w.timers
        /\ r.stack = Pop(w).stack

\* the handler suspended in a goes on to b: it has submitted one fetch, fired
\* nothing more, scheduled the timeout if there is one, and returned Ok
C11_Submitted(a, b) ==
    /\ Result(Goto(Pop(a), Top(a), Top(a).pc)) = "Ok"
    /\ Len(b.fetches) = Len(a.fetches) + 1
    /\ b.log = a.log
    /\ b.stack = Pop(a).stack
    /\ IF a.xhr.timeout > 0
       THEN [generation_id |-> a.xhr.generation_id, held |-> TRUE] \in b.timers \ a.timers
       ELSE b.timers = a.timers

\* C11: an asynchronous send fires loadstart on the object with no fetch
\* submitted yet; when its observers return it fires loadstart on the upload
\* exactly if upload_complete is FALSE, still with no fetch, and then submits the
\* fetch; and if an observer of either event has called abort or an accepted open,
\* send returns Ok with no fetch submitted and no timeout scheduled
C11_LoadstartBeforeFetch ==
    C11_Sending =>
        \A data \in Bodies :
            LET n == Len(stack)
                s1 == DoSend(World, data)
                s2 == Resume(s1)
            IN  /\ Len(s1.stack) = n + 1
                /\ Top(s1).proc = "Send"
                /\ s1.log = <<[target |-> "xhr", type |-> "loadstart", ready_state |-> Opened]>>
                /\ s1.fetches = fetches /\ s1.timers = timers
                /\ \A i \in C11_Interrupted(s1) : Len(i.stack) = n + 1 /\ C11_Stopped(i)
                /\ IF s1.xhr.upload_complete
                   THEN C11_Submitted(s1, s2)
                   ELSE /\ Len(s2.stack) = n + 1
                        /\ Top(s2).proc = "Send"
                        /\ s2.log = Append(s1.log, [target |-> "upload", type |-> "loadstart",
                                                    ready_state |-> Opened])
                        /\ s2.fetches = fetches /\ s2.timers = timers
                        /\ C11_Submitted(s2, Resume(s2))
                        /\ \A i \in C11_Interrupted(s2) :
                              Len(i.stack) = n + 1 /\ C11_Stopped(i)

\* a send with a timeout set has returned after an observer of its upload
\* loadstart called abort: nothing was fetched, nothing is scheduled
C11_SendCutAtUploadLoadstart ==
    /\ stack = <<>>
    /\ fetches = <<>>
    /\ timers = {}
    /\ xhr.timeout > 0
    /\ Len(log) > 2
    /\ log[2] = [target |-> "upload", type |-> "loadstart", ready_state |-> Opened]
    /\ log[Len(log)].type = "loadend"

\* a Send of a synchronous request of the current generation is in progress
C12_SyncSendInProgress ==
    \E i \in 1..Len(stack) :
        /\ stack[i].proc = "Send"
        /\ stack[i].at \in {"yield", "sync_wait"}
        /\ stack[i].gen_id = xhr.generation_id

\* while it is, no loadstart and no progress event has been fired since the send,
\* and until the end of the response or an error nothing at all, the state Opened
C12_NoEventsWhileSync ==
    C12_SyncSendInProgress =>
        /\ xhr.sync
        /\ \A j \in 1..Len(log) : log[j].type \notin {"loadstart", "progress"}
        /\ xhr.send_flag => log = <<>> /\ xhr.ready_state = Opened

\* the metadata of the response (HeadersReceived), or a chunk of it (Loading), is
\* delivered to the loop of a synchronous send of the current generation
C12_SyncHeaders(meta) ==
    \E ctx \in 1..Len(fetches) :
        /\ fetches[ctx].sync
        /\ fetches[ctx].gen_id = xhr.generation_id
        /\ CanDeliver(ctx)
        /\ fetches[ctx].phase = "headers"
        /\ Commit(DoProcessResponse(World, ctx, meta))

C12_SyncChunk(chunk) ==
    \E ctx \in 1..Len(fetches) :
        /\ fetches[ctx].sync
        /\ fetches[ctx].gen_id = xhr.generation_id
        /\ CanDeliver(ctx)
        /\ fetches[ctx].phase = "body"
        /\ Commit(DoProcessResponseChunk(World, ctx, chunk))

\* C12, as stated: during a synchronous send no loadstart and no progress event is
\* fired, and the processing of HeadersReceived and of Loading changes nothing
\* but the status, the response headers and the response buffer, the state Opened
C12_OnlyStatusHeadersBuffer ==
    /\ []C12_NoEventsWhileSync
    /\ [][(C12_SyncHeaders(OkMeta) \/ \E chunk \in Chunks : C12_SyncChunk(chunk)) =>
            /\ xhr' = [xhr EXCEPT !.status = xhr'.status,
                                  !.status_text = xhr'.status_text,
                                  !.response_headers = xhr'.response_headers,
                                  !.response = xhr'.response]
            /\ xhr'.ready_state = Opened
            /\ log' = log /\ stack' = stack]_vars

\* C12, amended: the processing of HeadersReceived also sets upload_complete and,
\* before it, response_url; it stores the status and the headers of the response
\* and empties the buffer, and that of Loading appends the chunk to the buffer
C12_SyncStoresOnly ==
    /\ []C12_NoEventsWhileSync
    /\ [][C12_SyncHeaders(OkMeta) =>
            /\ xhr' = [xhr EXCEPT !.response_url = OkMeta.final_url,
                                  !.upload_complete = TRUE,
                                  !.status = Unwrap(OkMeta.status)[1],
                                  !.status_text = Unwrap(OkMeta.status)[2],
                                  !.response_headers = Unwrap(OkMeta.headers),
                                  !.response = <<>>]
            /\ xhr'.ready_state = Opened
            /\ log' = log /\ stack' = stack]_vars
    /\ [][\A chunk \in Chunks : C12_SyncChunk(chunk) =>
            /\ xhr' = [xhr EXCEPT !.response = xhr.response \o chunk]
            /\ xhr'.ready_state = Opened
            /\ log' = log /\ stack' = stack]_vars

\* a synchronous send of a body has received the status and a chunk, and waits
C12_SyncReceiving ==
    /\ stack # <<>>
    /\ Top(World).at = "sync_wait"
    /\ xhr.sync /\ xhr.send_flag
    /\ xhr.request_body_len > 0
    /\ xhr.upload_complete
    /\ xhr.status = 200
    /\ xhr.response = <<104>>
    /\ xhr.ready_state = Opened
    /\ log = <<>>

\* the loop of fetch() of a synchronous Send has found sync_status set: the Send
\* is about to return
C13_Returning ==
    /\ ~panic
    /\ stack # <<>>
    /\ Top(World).proc = "Send"
    /\ Top(World).at = "sync_wait"
    /\ IsSome(fetches[Top(World).ctx].sync_status)

\* the blocks of process_partial_response after an event of Done and of Errored
C13_TerminalBlocks ==
    {"ppr_dn_1", "ppr_dn_2", "ppr_er_1", "ppr_er_2", "ppr_er_3", "ppr_er_5", "ppr_end"}

\* the value a synchronous Send returns is Ok or Network; if no open or abort was
\* called meanwhile the state is Done and send_flag clear, and the value is Ok
\* after Done, Network after Errored (which alone sets response_status to Err)
C13_ReturnsTerminalResult ==
    C13_Returning =>
        LET fr == Top(World)
            v == Result(Goto(Pop(World), fr, fr.pc))
        IN  /\ fetches[fr.ctx].gen_id = fr.gen_id
            /\ v = Unwrap(fetches[fr.ctx].sync_status)
            /\ v \in {"Ok", "Network"}
            /\ xhr.generation_id = fr.gen_id =>
                  /\ ~xhr.send_flag
                  /\ xhr.ready_state = Done
                  /\ v = "Ok" <=> xhr.response_status = "Ok"

\* while the observers of an event of Done or Errored of the current generation
\* run, and have called nothing yet, send_flag is clear
C13_FlagClearedFirst ==
    /\ ~panic
    /\ stack # <<>>
    /\ Top(World).at = "observer"
    /\ Top(World).progress \in {"Done", "Errored"}
    /\ Top(World).msg_id = xhr.generation_id
    => ~xhr.send_flag /\ xhr.ready_state = Done

C14_Methods == {GET, TRACK, CONNECT, <<116, 114, 97, 99, 101>>, <<71, 32>>}

\* C14: an open that fails leaves everything as it is: the generation, the state,
\* the method, url and headers of the request, the sync flag, send_flag and the
\* status, the fetch in progress and its canceller, the events fired and the
\* timers; and open fails with InvalidState in a document that is not active, or
\* else with Security for CONNECT, TRACE and TRACK, or else with Syntax for a
\* method that is no token or a url that does not parse, or else with
\* InvalidAccess when it is synchronous and a timeout or a response type is set
C14_FailedOpenChangesNothing ==
    \A method \in C14_Methods, url \in Urls, async \in BOOLEAN, active \in BOOLEAN :
        LET fr == Frame("Open", "Open_")
            r == Open_(World, fr, method, url, async, active)
            expected ==
                IF ~active THEN "InvalidState"
                ELSE IF to_ascii_uppercase(method) \in {CONNECT, TRACE, TRACK} THEN "Security"
                ELSE IF ~is_token(method) \/ url \in BadUrls THEN "Syntax"
                ELSE IF ~async /\ (xhr.timeout # 0 \/ xhr.response_type # "")
                     THEN "InvalidAccess"
                ELSE "accepted"
        IN  IF expected = "accepted"
            THEN /\ r.ctl = "end" => r.val = "Ok"
                 /\ Run(r).xhr.generation_id = xhr.generation_id + 1
            ELSE /\ r = Return(World, fr, expected)
                 /\ Run(r) = World

\* a response is being received with a timeout set: a synchronous open fails
\* with InvalidAccess, and the fetch goes on
C14_ReceivingWithTimeout ==
    /\ stack = <<>>
    /\ xhr.ready_state = Loading
    /\ xhr.timeout > 0
    /\ xhr.canceller # 0
    /\ timers # {}
    /\ OpenResult(GET, "http://a/", FALSE, TRUE) = "InvalidAccess"

C16_OpenResets ==
    \A method \in {GET, POST}, async \in BOOLEAN :
        LET fr == Frame("Open", "Open_")
            r == Open_(World, fr, method, "http://a/", async, TRUE)
            o == Run(r)
            e == Quiesce(o, Len(stack))
        IN  ~panic /\ (r.ctl # "end" \/ r.val = "Ok") =>
                /\ o.xhr.request_headers = {}
                /\ ~o.xhr.send_flag
                /\ o.xhr.status = 0
                /\ o.xhr.status_text = ""
                /\ o.xhr.ready_state = Opened
                /\ e.xhr = o.xhr /\ e.log = o.log /\ e.stack = stack
                /\ IF xhr.ready_state # Opened
                   THEN /\ r.ctl = "observer"
                        /\ o.log = Append(log, [target |-> "xhr", type |-> "readystatechange",
                                                ready_state |-> Opened])
                        /\ Result(Goto(Pop(o), Top(o), Top(o).pc)) = "Ok"
                   ELSE /\ r.ctl = "end"
                        /\ o.log = log

\* a request with a header set has been sent and received, and opened again
C16_ReopenedAfterDone ==
    /\ stack = <<>>
    /\ xhr.ready_state = Opened
    /\ xhr.status = 0
    /\ xhr.request_headers = {}
    /\ xhr.response_url # ""
    /\ Len(log) > 1
    /\ log[Len(log)] = [target |-> "xhr", type |-> "readystatechange", ready_state |-> Opened]
    /\ log[Len(log) - 1].ready_state = Done

\* the events of the error steps of abort: readystatechange at state Done, abort
\* and loadend on the upload if it was not complete, abort and loadend
C17_AbortEvents(upload_complete) ==
    <<[target |-> "xhr", type |-> "readystatechange", ready_state |-> Done]>>
    \o (IF upload_complete THEN <<>>
        ELSE <<[target |-> "upload", type |-> "abort", ready_state |-> Done],
               [target |-> "upload", type |-> "loadend", ready_state |-> Done]>>)
    \o <<[target |-> "xhr", type |-> "abort", ready_state |-> Done],
         [target |-> "xhr", type |-> "loadend", ready_state |-> Done]>>

\* C17: abort processes an Errored message of the error Abort, with the generation
\* it has just advanced to, and so fires the events of an abort, exactly if the
\* state at the call is Opened with send_flag set, HeadersReceived or Loading; when
\* the state is Unsent, Opened with send_flag clear, or Done it fires no event
C17_AbortErrorsWhileInProgress ==
    ~panic =>
        LET r == Abort_(World, Frame("Abort", "Abort_"))
            a == Quiesce(Run(r), Len(stack))
            in_progress == \/ xhr.ready_state = Opened /\ xhr.send_flag
                           \/ xhr.ready_state \in {HeadersReceived, Loading}
        IN  /\ r.ctl = "goto"
            /\ a.stack = stack
            /\ IF in_progress
               THEN /\ r.fr.pc = "ppr"
                    /\ r.fr.progress = "Errored"
                    /\ r.fr.e = "Abort"
                    /\ r.fr.msg_id = xhr.generation_id + 1
                    /\ r.w.xhr.generation_id = xhr.generation_id + 1
                    /\ a.log = log \o C17_AbortEvents(xhr.upload_complete)
               ELSE /\ xhr.ready_state \in {Unsent, Opened, Done}
                    /\ Run(r).stack = stack
                    /\ a.log = log

\* a request with a body was aborted while its response was being received
C17_AbortedWhileLoading ==
    /\ stack = <<>>
    /\ xhr.request_body_len > 0
    /\ \E i \in 1..Len(log) :
          /\ i + 3 = Len(log)
          /\ log[i].ready_state = Loading
          /\ SubSeq(log, i + 1, Len(log)) = C17_AbortEvents(TRUE)

\* the events fired after the first n of the log of w
C18_Since(w, n) == SubSeq(w.log, n + 1, Len(w.log))

\* at each event that the handlers above the n outermost fire from w on: if its
\* observers call abort, or an open that is accepted, and return, the handler
\* returns Ok and leaves the state, Unsent or Opened, and all else as that call left it
RECURSIVE C18_EachStop(_, _)
C18_EachStop(w, n) ==
    IF w.panic \/ Len(w.stack) <= n THEN TRUE
    ELSE /\ \A i \in C11_Interrupted(w) : C11_Stopped(i)
         /\ Resume(Quiesce(DoAbort(w), Len(w.stack))).xhr.ready_state = Unsent
         /\ Resume(Quiesce(DoOpen(w, GET, "http://a/", TRUE, TRUE), Len(w.stack))).xhr.ready_state
               = Opened
         /\ C18_EachStop(Resume(w), n)

\* C18: when abort returns the state is Unsent, and no event was fired at that
\* state; unless an observer of one of abort's events has called abort, or an open
\* that is accepted: then abort returns at once, and the state is the one that
\* call left
C18_AbortEndsUnsent ==
    ~panic =>
        LET o == DoAbort(World)
            a == Quiesce(o, Len(stack))
        IN  /\ a.stack = stack
            /\ a.xhr.ready_state = Unsent
            /\ \A i \in 1..Len(C18_Since(a, Len(log))) :
                  C18_Since(a, Len(log))[i].ready_state = Done
            /\ C18_EachStop(o, Len(stack))

\* an observer of the readystatechange of an abort has called open, and abort has
\* returned: the request is opened
C18_OpenedDuringAbort ==
    /\ stack = <<>>
    /\ xhr.ready_state = Opened
    /\ xhr.generation_id = MaxGen + 1
    /\ Len(log) > 1
    /\ log[Len(log)] = [target |-> "xhr", type |-> "readystatechange", ready_state |-> Opened]
    /\ log[Len(log) - 1] = [target |-> "xhr", type |-> "readystatechange", ready_state |-> Done]

\* C19: while response_status is Err and the generation stays the same, the
\* response buffer stays as it is, whatever is delivered: no chunk is appended;
\* and response_status stays Err until open or abort begins a new generation
C19_NoChunkAfterError ==
    [][xhr.response_status = "Err" /\ xhr'.generation_id = xhr.generation_id =>
          /\ xhr'.response = xhr.response
          /\ xhr'.response_status = "Err"]_vars

\* the request has timed out while its response was received, and a chunk
\* delivered after that was not appended
C19_ChunkDropped ==
    /\ xhr.response_status = "Err"
    /\ xhr.canceller = 0
    /\ \E ctx \in 1..Len(fetches) :
          /\ fetches[ctx].gen_id = xhr.generation_id
          /\ fetches[ctx].phase = "body"
          /\ fetches[ctx].sent = <<104, 104>>
          /\ xhr.response = <<104>>
    /\ \E i \in 1..Len(log) : log[i].type = "timeout"

\* no two fetches were submitted in the same generation (a record with
\* generation 0 is what is kept of a fetch of an earlier generation that has
\* nothing left to deliver; no fetch is submitted in generation 0)
C20_OneFetchEach ==
    \A i \in 1..Len(fetches), j \in 1..Len(fetches) :
        i # j /\ fetches[i].gen_id # 0 => fetches[i].gen_id # fetches[j].gen_id

\* C20: a step submits at most one fetch, in the current generation, and no fetch
\* was submitted in that generation before.  As the generation only grows by the
\* calls of open and abort, one of them lies between any two submissions
C20_OneFetchPerGeneration ==
    /\ []C20_OneFetchEach
    /\ [][Len(fetches') # Len(fetches) =>
            /\ Len(fetches') = Len(fetches) + 1
            /\ fetches'[Len(fetches')].gen_id = xhr.generation_id
            /\ xhr'.generation_id = xhr.generation_id
            /\ xhr.generation_id > 0
            /\ xhr'.canceller = Len(fetches')
            /\ \A i \in 1..Len(fetches) :
                  /\ fetches[i].gen_id < xhr.generation_id
                  /\ fetches'[i].gen_id < xhr.generation_id]_vars

\* an observer of the loadstart event of a send has called open and send, whose
\* fetch is submitted; the first send has yet to go on
C20_SentFromObserver ==
    /\ Len(stack) = 1
    /\ Top(World).proc = "Send"
    /\ Top(World).at = "observer"
    /\ Top(World).gen_id < xhr.generation_id
    /\ Len(fetches) = 1
    /\ fetches[1].gen_id = xhr.generation_id
    /\ xhr.send_flag

----------------------------------------------------------------------------
(* Properties of reading the response *)

\* the bytes that the fetch of the object's current generation has delivered
ReceivedNow ==
    IF \E ctx \in 1..Len(fetches) : fetches[ctx].gen_id = xhr.generation_id
    THEN fetches[CHOOSE ctx \in 1..Len(fetches) : fetches[ctx].gen_id = xhr.generation_id].sent
    ELSE <<>>

IsPrefix(s, t) == Len(s) <= Len(t) /\ \A i \in 1..Len(s) : s[i] = t[i]

\* C21, as stated: at every state, whatever opens and aborts came before, the text
\* that a response read returns is the decoding of bytes received in the object's
\* current generation, and of no byte of an earlier one
C21_ReadsNoEarlierBytes ==
    xhr.response_type \in {"", "text"} =>
        IsPrefix(GetResponseText(World).val.text, Utf8Decode(ReceivedNow))

\* C22, as stated: at every state, the binary buffer, document, structured value or
\* blob that a read of the response returns was materialized in the object's
\* current generation, and in no earlier one
C22_ReadsNoEarlierObject ==
    LET val == Response(World).val
    IN  val.kind \in {"Blob", "ArrayBuffer", "Document", "Json"} =>
            val.made_in = xhr.generation_id

\* a second response, empty, has been received to its end, and a read of the
\* response returns the blob made of the byte of the first
C22_BlobOfEarlierResponse ==
    /\ xhr.generation_id = 2
    /\ xhr.ready_state = Done
    /\ xhr.response_status = "Ok"
    /\ xhr.response = <<>>
    /\ xhr.response_type = "blob"
    /\ Response(World).val = [kind |-> "Blob", bytes |-> <<49>>, mime |-> "", made_in |-> 1]

----------------------------------------------------------------------------
(* Properties of the timeout *)

\* C23, as stated: at every state at most one timeout callback is scheduled, and
\* it was scheduled under the object's current generation; when no request is
\* being sent (after Done, an error, open or abort) none is scheduled
C23_OneTimeoutOfCurrentGeneration ==
    /\ Cardinality(timers) <= 1
    /\ \A t \in timers : t.generation_id = xhr.generation_id
    /\ stack = <<>> /\ ~xhr.send_flag => timers = {}

\* open has replaced a request sent with a timeout: the callback scheduled for
\* it is still scheduled, and its handle still stored
C23_TimeoutOutlivesOpen ==
    /\ stack = <<>>
    /\ xhr.ready_state = Opened
    /\ ~xhr.send_flag
    /\ xhr.generation_id = 2
    /\ IsSome(xhr.timeout_cancel)
    /\ timers = {[generation_id |-> 0, held |-> TRUE]}

\* C24, as stated: setTimeout(ms) on a synchronous request in a window returns
\* InvalidAccess, and the timeout field is ms afterwards
C24_RejectedTimeoutIsStored ==
    sync_in_window(xhr) =>
        \A ms \in Timeouts :
            LET r == SetTimeout_(World, Frame("SetTimeout", "SetTimeout_"), ms)
            IN  r.ctl = "end" /\ r.val = "InvalidAccess" /\ r.w.xhr.timeout = ms

\* C24: setTimeout(ms) on a synchronous request in a window returns InvalidAccess
\* and changes nothing: the timeout field keeps the value it had, and no callback
\* is scheduled or cancelled; on any other request it returns Ok and the timeout
\* field is ms
C24_RejectedTimeoutChangesNothing ==
    \A ms \in Timeouts :
        LET fr == Frame("SetTimeout", "SetTimeout_")
            r == SetTimeout_(World, fr, ms)
        IN  IF sync_in_window(xhr)
            THEN r = Return(World, fr, "InvalidAccess")
            ELSE r.ctl = "end" /\ r.val = "Ok" /\ r.w.xhr.timeout = ms

\* a synchronous request is open in a window, its timeout 0, and script can call
\* setTimeout(5)
C24_SyncOpened ==
    /\ stack = <<>>
    /\ sync_in_window(xhr)
    /\ xhr.ready_state = Opened
    /\ xhr.timeout = 0
    /\ 5 \in Timeouts
    /\ DoSetTimeout(World, 5) = World

\* the events of a timeout: readystatechange at state Done, timeout and loadend on
\* the upload if it was not complete, timeout and loadend
C25_TimeoutEvents(upload_complete) ==
    <<[target |-> "xhr", type |-> "readystatechange", ready_state |-> Done]>>
    \o (IF upload_complete THEN <<>>
        ELSE <<[target |-> "upload", type |-> "timeout", ready_state |-> Done],
               [target |-> "upload", type |-> "loadend", ready_state |-> Done]>>)
    \o <<[target |-> "xhr", type |-> "timeout", ready_state |-> Done],
         [target |-> "xhr", type |-> "loadend", ready_state |-> Done]>>

\* C25: a timeout callback that runs, no observer calling anything, leaves the
\* state Done, send_flag clear, the response status Err and no handle stored, and
\* fires readystatechange, timeout and then loadend, exactly if the generation it
\* was scheduled under is the object's current one and the state is not Done;
\* otherwise it changes no field, fires no event and stops no fetch
C25_TimeoutOnlyInCurrentGeneration ==
    ~panic /\ stack = <<>> =>
        \A t \in timers :
            LET o == Quiesce(DoTimeout(World, t), 0)
            IN  IF t.generation_id = xhr.generation_id /\ xhr.ready_state # Done
                THEN /\ o.xhr.ready_state = Done
                     /\ ~o.xhr.send_flag
                     /\ o.xhr.response_status = "Err"
                     /\ o.xhr.timeout_cancel = None
                     /\ o.xhr.generation_id = xhr.generation_id
                     /\ o.stack = <<>>
                     /\ o.log = log \o C25_TimeoutEvents(xhr.upload_complete)
                ELSE /\ o.xhr = xhr
                     /\ o.log = log
                     /\ o.stack = <<>>
                     /\ o.fetches = fetches
                     /\ o.timers = timers \ {t}

\* a request with a body has timed out before its response's headers came
C25_TimedOut ==
    /\ stack = <<>>
    /\ xhr.ready_state = Done
    /\ xhr.response_status = "Err"
    /\ xhr.request_body_len > 0
    /\ log = <<[target |-> "xhr", type |-> "loadstart", ready_state |-> Opened],
               [target |-> "upload", type |-> "loadstart", ready_state |-> Opened]>>
             \o C25_TimeoutEvents(FALSE)

----------------------------------------------------------------------------
(* Properties of the response type and the mime type *)

\* C26, as stated: when the state is Loading or Done, overrideMimeType and
\* setResponseType each return InvalidState, whatever they are given
C26_InvalidStateWhenLoadingOrDone ==
    xhr.ready_state \in {Loading, Done} =>
        /\ \A mime \in Mimes :
              Result(OverrideMimeType_(World, Frame("OverrideMimeType", "OverrideMimeType_"),
                                       mime)) = "InvalidState"
        /\ \A response_type \in XMLHttpRequestResponseType :
              Result(SetResponseType_(World, Frame("SetResponseType", "SetResponseType_"),
                                      response_type)) = "InvalidState"

\* C26: overrideMimeType returns InvalidState when the state is Loading or Done, and
\* setResponseType does unless it is given the Document type in a worker, which
\* returns without an error in every state; setResponseType returns InvalidAccess
\* on a synchronous request in a window that is not Loading or Done; every call
\* that fails, and the one with the Document type in a worker, changes nothing
C26_FailureChangesNothing ==
    /\ \A mime \in Mimes :
          LET fr == Frame("OverrideMimeType", "OverrideMimeType_")
              r == OverrideMimeType_(World, fr, mime)
          IN  IF xhr.ready_state \in {Loading, Done}
              THEN r = Return(World, fr, "InvalidState")
              ELSE /\ r.ctl = "end"
                   /\ r.val \in {"Ok", "Syntax"}
                   /\ r.val # "Ok" => r.w = World
    /\ \A response_type \in XMLHttpRequestResponseType :
          LET fr == Frame("SetResponseType", "SetResponseType_")
              r == SetResponseType_(World, fr, response_type)
          IN  IF xhr.global = "Worker" /\ response_type = "document"
              THEN r = Return(World, fr, "Ok")
              ELSE IF xhr.ready_state \in {Loading, Done}
                   THEN r = Return(World, fr, "InvalidState")
              ELSE IF xhr.sync /\ xhr.global = "Window"
                   THEN r = Return(World, fr, "InvalidAccess")
              ELSE r = Return([World EXCEPT !.xhr.response_type = response_type], fr, "Ok")

\* a response is being received in a worker, a mime type and a response type set
C26_WorkerLoading ==
    /\ stack = <<>>
    /\ xhr.global = "Worker"
    /\ xhr.ready_state = Loading
    /\ xhr.override_mime_type = Some("text/html")
    /\ xhr.response_type = "json"
    /\ DoSetResponseType(World, "document") = World
    /\ DoOverrideMimeType(World, "text/plain") = World

\* C27: a read of the response under the default or the text response type
\* returns the decoding of the buffer as it is when the state is Loading or Done,
\* and the empty string in every other state, whatever the buffer holds; under any
\* other response type it returns null when the state is not Done; these reads
\* store nothing
C27_ReadByTypeAndState ==
    LET read == Response(World)
    IN  IF xhr.response_type \in {"", "text"}
        THEN /\ read.w = World
             /\ read = GetResponseText(World)
             /\ read.val = IF xhr.ready_state \in {Loading, Done}
                           THEN String(Utf8Decode(xhr.response))
                           ELSE String(<<>>)
        ELSE /\ GetResponseText(World).val = Err("InvalidState")
             /\ xhr.ready_state # Done => read = Read(World, Null)
             /\ read.val # Null => read.val.kind \in {"Blob", "ArrayBuffer", "Document", "Json"}

\* a request is opened again with the text response type, the buffer still
\* holding a byte: a read returns the empty string
C27_TextWhileOpened ==
    /\ stack = <<>>
    /\ xhr.response_type = "text"
    /\ xhr.ready_state = Opened
    /\ xhr.response = <<49>>
    /\ Response(World).val = String(<<>>)

----------------------------------------------------------------------------
(* Properties of the size reserved for the response *)

\* the fetches whose metadata can be delivered now and will be processed
C28_AwaitingHeaders ==
    {ctx \in 1..Len(fetches) :
        /\ CanDeliver(ctx)
        /\ fetches[ctx].phase = "headers"
        /\ fetches[ctx].gen_id = xhr.generation_id}

\* the size reserved once the metadata meta of fetch ctx has been processed
C28_Reserved(ctx, meta) == Quiesce(DoProcessResponse(World, ctx, meta), 0).xhr.response_reserved

\* C28, as stated: when the metadata carries a content length L, the size reserved
\* is min(L, 4194304)
C28_ReservesMinOfLength ==
    \A ctx \in C28_AwaitingHeaders, meta \in LengthMetas :
        LET len == ContentLength(Unwrap(meta.headers))
        IN  meta.ok /\ IsSome(len) =>
                C28_Reserved(ctx, meta) = Some(cmp_min(Unwrap(len), MaxReserve))

\* C28: when the metadata carries a content length L, the size reserved is
\* min(L mod 2^w, 4194304), w the pointer width of the build: it is min(L, 4194304)
\* whenever L < 2^w, and never more than 4194304; without a content length
\* nothing is reserved
C28_ReservesMinOfTruncatedLength ==
    \A ctx \in C28_AwaitingHeaders, meta \in LengthMetas :
        LET len == IF IsSome(meta.headers) THEN ContentLength(Unwrap(meta.headers)) ELSE None
            reserved == C28_Reserved(ctx, meta)
        IN  meta.ok =>
                IF IsSome(len)
                THEN LET L == Unwrap(len)
                         low == IF xhr.pointer_width = 32 THEN <<L[1], L[2], 0, 0>> ELSE L
                     IN  /\ IsSome(reserved)
                         /\ ~Less(MaxReserve, Unwrap(reserved))
                         /\ Unwrap(reserved) = IF Less(low, MaxReserve) THEN low ELSE MaxReserve
                         /\ low = L => Unwrap(reserved) = cmp_min(L, MaxReserve)
                ELSE reserved = None

\* in a build of pointer width 32 the headers of a response of 4294967301 bytes
\* have been received: 5 bytes are reserved
C28_TruncatedLengthReserved ==
    /\ stack = <<>>
    /\ xhr.pointer_width = 32
    /\ xhr.ready_state = HeadersReceived
    /\ xhr.response_headers = {<<"content-length", <<"4294967301">> >>}
    /\ xhr.response_reserved = Some(U64(0, 5))

----------------------------------------------------------------------------
(* Properties of the response headers *)

\* the values of one name, ", " between each two
RECURSIVE C29_Joined(_)
C29_Joined(values) ==
    IF Len(values) <= 1 THEN values
    ELSE <<Head(values), ", ">> \o C29_Joined(Tail(values))

RECURSIVE C29_Lines(_, _)
C29_Lines(headers, keys) ==
    IF keys = <<>> THEN <<>>
    ELSE <<Head(keys), ": ">> \o C29_Joined(get(headers, Head(keys))) \o <<"\r\n">>
         \o C29_Lines(headers, Tail(keys))

\* C29, as stated: at every state getAllResponseHeaders returns, for every name of
\* the response headers but set-cookie and set-cookie2, in the order of the map,
\* one line of the name, ": ", the values of the name with ", " between them, and
\* CR LF
C29_ValuesJoinedByComma ==
    LET shown == {p \in xhr.response_headers : p[1] \notin {"set-cookie", "set-cookie2"}}
    IN  \A keys \in Keys(shown) :
            GetAllResponseHeaders(xhr, keys) = C29_Lines(shown, keys)

\* a response whose header x-a has the values 1 and 2 has been received
C29_TwoValuesReceived ==
    /\ stack = <<>>
    /\ xhr.ready_state = Done
    /\ xhr.response_headers = {<<"x-a", <<"1", "2">> >>, <<"set-cookie", <<"c">> >>}
    /\ GetAllResponseHeaders(xhr, <<"x-a">>) = <<"x-a", ": ", "1", "2", "\r\n">>

----------------------------------------------------------------------------
(* Properties of is_field_value *)

\* the byte at i is in a fold: a CR LF followed by SP and HT up to i at least,
\* and by one of them in any case
C30_InFold(bs, i) ==
    \E j \in 1..i :
        /\ j + 2 <= Len(bs)
        /\ bs[j] = CR
        /\ bs[j + 1] = LF
        /\ \A k \in (j + 2)..(IF i > j + 2 THEN i ELSE j + 2) : bs[k] \in {SP, HT}

\* C30, as stated: is_field_value accepts a byte sequence exactly when it has no
\* non-ASCII byte, no control byte (0 to 31, 127) outside a fold, and every CR LF
\* in it is followed at once by SP or HT, so that it rejects a sequence that ends
\* in CR or in CR LF; it accepts "value" and "line1\r\n value2" and rejects
\* "va\x01lue" and "line1\r\nvalue2"
C30_AcceptsExactlyFieldValues ==
    IsSome(field_value) =>
        LET bs == Unwrap(field_value).slice
            accepted == Unwrap(field_value).accepted
        IN  /\ accepted <=>
                  \A i \in 1..Len(bs) :
                      /\ bs[i] <= 127
                      /\ bs[i] <= 31 \/ bs[i] = 127 => C30_InFold(bs, i)
            /\ bs \in {<<118, 97, 108, 117, 101>>,
                       <<108, 105, 110, 101, 49, CR, LF, SP, 118, 97, 108, 117, 101, 50>>}
                  => accepted
            /\ bs \in {<<118, 97, 1, 108, 117, 101>>,
                       <<108, 105, 110, 101, 49, CR, LF, 118, 97, 108, 117, 101, 50>>}
                  => ~accepted

\* is_field_value has been given, and has accepted, a value that ends in CR LF
C30_AcceptedValueEndingInCRLF ==
    field_value = Some([slice |-> <<97, CR, LF>>, accepted |-> TRUE])

----------------------------------------------------------------------------
(* Properties of the processing of one message *)

\* the fetches of the current generation, not errored, of which a message can be
\* delivered now
C31_Current(phases) ==
    {ctx \in 1..Len(fetches) :
        /\ CanDeliver(ctx)
        /\ fetches[ctx].phase \in phases
        /\ fetches[ctx].gen_id = xhr.generation_id
        /\ xhr.response_status = "Ok"}

C31_Event(target, type, ready_state) ==
    [target |-> target, type |-> type, ready_state |-> ready_state]

\* C31: when the metadata of an asynchronous response of the current generation is
\* processed, upload_complete is set and progress is fired on the upload with the
\* status, the headers and the buffer as they were; then load and loadend on the
\* upload, still so; then the status and the headers are those of the metadata, the
\* buffer is empty, the state is HeadersReceived and one readystatechange is
\* fired; and nothing after it
C31_HeadersReceivedInOrder ==
    \A ctx \in C31_Current({"headers"}), meta \in HeaderMetas :
        meta.ok =>
            LET w0 == DoProcessResponse(World, ctx, meta)
                w1 == Resume(w0)
                w2 == Resume(w1)
                w3 == Resume(w2)
                w4 == Resume(w3)
                before(w) == /\ w.xhr.upload_complete
                             /\ w.xhr.ready_state = Opened
                             /\ w.xhr.status = xhr.status
                             /\ w.xhr.status_text = xhr.status_text
                             /\ w.xhr.response_headers = xhr.response_headers
                             /\ w.xhr.response = xhr.response
                             /\ Len(w.stack) = 1
                up(type) == C31_Event("upload", type, Opened)
            IN  /\ xhr.ready_state = Opened
                /\ before(w0) /\ w0.log = log \o <<up("progress")>>
                /\ before(w1) /\ w1.log = w0.log \o <<up("load")>>
                /\ before(w2) /\ w2.log = w1.log \o <<up("loadend")>>
                /\ w3.xhr.status = Unwrap(meta.status)[1]
                /\ w3.xhr.status_text = Unwrap(meta.status)[2]
                /\ w3.xhr.response_headers = Unwrap(meta.headers)
                /\ w3.xhr.response = <<>>
                /\ w3.xhr.ready_state = HeadersReceived
                /\ w3.log = w2.log \o <<C31_Event("xhr", "readystatechange", HeadersReceived)>>
                /\ Len(w3.stack) = 1
                /\ w4.stack = <<>>
                /\ w4.log = w3.log
                /\ w4.xhr = w3.xhr

\* the headers of the response to a second request have been received
C31_SecondHeadersReceived ==
    /\ stack = <<>>
    /\ xhr.generation_id = 2
    /\ xhr.ready_state = HeadersReceived
    /\ xhr.response = <<>>
    /\ xhr.response_headers # {}
    /\ log = <<C31_Event("xhr", "loadstart", Opened),
               C31_Event("upload", "progress", Opened),
               C31_Event("upload", "load", Opened),
               C31_Event("upload", "loadend", Opened),
               C31_Event("xhr", "readystatechange", HeadersReceived)>>

\* C32: when a chunk of an asynchronous response of the current generation is
\* processed, the state being HeadersReceived or Loading, the chunk is put at the
\* end of the buffer, the state is Loading, and one readystatechange and then one
\* progress are fired on the object; nothing else changes
C32_ChunkAppendedAndAnnounced ==
    \A ctx \in C31_Current({"body"}), chunk \in Chunks :
        LET w0 == DoProcessResponseChunk(World, ctx, chunk)
            w1 == Resume(w0)
            w2 == Resume(w1)
            loaded == [xhr EXCEPT !.response = @ \o chunk, !.ready_state = Loading]
        IN  /\ xhr.ready_state \in {HeadersReceived, Loading}
            /\ w0.xhr = loaded
            /\ w0.log = log \o <<C31_Event("xhr", "readystatechange", Loading)>>
            /\ Len(w0.stack) = 1
            /\ w1.xhr = loaded
            /\ w1.log = w0.log \o <<C31_Event("xhr", "progress", Loading)>>
            /\ Len(w1.stack) = 1
            /\ w2.xhr = loaded
            /\ w2.log = w1.log
            /\ w2.stack = <<>>

\* two chunks have been received, each announced by readystatechange and progress
C32_TwoChunksAnnounced ==
    /\ stack = <<>>
    /\ xhr.ready_state = Loading
    /\ xhr.response = <<104, 255>>
    /\ Len(log) >= 4
    /\ SubSeq(log, Len(log) - 3, Len(log)) =
          <<C31_Event("xhr", "readystatechange", Loading), C31_Event("xhr", "progress", Loading),
            C31_Event("xhr", "readystatechange", Loading), C31_Event("xhr", "progress", Loading)>>

\* the Errored messages of the current generation that can be processed at this
\* state: the world at the first event each fires, and the kind of its events
C33_Errored ==
    {[w |-> DoProcessResponse(World, ctx, NoMeta), kind |-> "error"] :
        ctx \in C31_Current({"headers"})}
    \cup {[w |-> DoProcessResponseEof(World, ctx, FALSE), kind |-> "error"] :
        ctx \in C31_Current({"body"})}
    \cup {[w |-> DoTimeout(World, t), kind |-> "timeout"] :
        t \in {t \in timers : /\ CanRunTask
                              /\ t.generation_id = xhr.generation_id
                              /\ xhr.ready_state # Done
                              /\ xhr.response_status = "Ok"}}
    \cup {[w |-> DoAbort(World), kind |-> "abort"] :
        a \in {a \in {"abort"} : /\ CanCall
                                 /\ \/ xhr.ready_state = Opened /\ xhr.send_flag
                                    \/ xhr.ready_state \in {HeadersReceived, Loading}}}

RECURSIVE C33_Then(_, _, _)
\* at w the log is seen and an observer runs; when the observers return, the
\* handler fires the events one after the other and then returns
C33_Then(w, seen, events) ==
    /\ ~w.panic
    /\ w.log = seen
    /\ Len(w.stack) = Len(stack) + 1
    /\ Top(w).at = "observer"
    /\ IF events = <<>>
       THEN Resume(w).log = seen /\ Resume(w).stack = stack /\ ~Resume(w).panic
       ELSE C33_Then(Resume(w), seen \o <<Head(events)>>, Tail(events))

\* C33: an Errored message of the current generation leaves no timeout scheduled
\* under a stored handle, the response status Err, send_flag clear and the state
\* Done at its readystatechange event, the upload not yet marked; then, exactly
\* if the upload was not complete, it marks it complete and fires the kind's
\* event and loadend on the upload; then the kind's event and loadend on the
\* object; the kind is error for a network error, timeout for a timeout and abort
\* for an abort
C33_ErroredInOrder ==
    \A m \in C33_Errored :
        LET w0 == m.w
            w1 == Resume(w0)
            Rest(target) == <<C31_Event(target, m.kind, Done), C31_Event(target, "loadend", Done)>>
            upload == IF xhr.upload_complete THEN <<>> ELSE Rest("upload")
        IN  /\ ~w0.panic
            /\ Len(w0.stack) = Len(stack) + 1
            /\ w0.xhr.timeout_cancel = None
            /\ \A t \in w0.timers : ~t.held
            /\ w0.xhr.response_status = "Err"
            /\ ~w0.xhr.send_flag
            /\ w0.xhr.ready_state = Done
            /\ w0.xhr.upload_complete = xhr.upload_complete
            /\ w0.log = log \o <<C31_Event("xhr", "readystatechange", Done)>>
            /\ w1.xhr.upload_complete
            /\ w1.xhr.ready_state = Done
            /\ C33_Then(w1, w0.log \o <<(upload \o Rest("xhr"))[1]>>,
                        Tail(upload \o Rest("xhr")))

\* a request with a body has failed with a network error before its upload was
\* complete
C33_FailedBeforeUploadComplete ==
    /\ stack = <<>>
    /\ xhr.ready_state = Done
    /\ xhr.response_status = "Err"
    /\ Len(log) >= 5
    /\ SubSeq(log, Len(log) - 4, Len(log)) =
          <<C31_Event("xhr", "readystatechange", Done),
            C31_Event("upload", "error", Done), C31_Event("upload", "loadend", Done),
            C31_Event("xhr", "error", Done), C31_Event("xhr", "loadend", Done)>>

\* a handler of the entry point proc goes on after the observers of its event
C34_Resumes(proc) ==
    /\ stack # <<>>
    /\ Top(World).proc = proc
    /\ Commit(Resume(World))

\* C34: in the order Unsent < Opened < HeadersReceived < Loading < Done no step
\* takes the state backward but a call of abort (or abort going on after the
\* events of its error steps), which takes it to Unsent, and a call of open, which
\* takes it to Opened; the processing of a message of a fetch and a timeout
\* callback, and their going on after an observer, never take it backward
C34_BackwardOnlyByAbortAndOpen ==
    [][xhr'.ready_state < xhr.ready_state =>
          \/ xhr'.ready_state = Unsent /\ (AbortStep \/ C34_Resumes("Abort"))
          \/ xhr'.ready_state = Opened /\ OpenStep]_vars

\* a request that had loaded its response has been opened again
C34_ReopenedAfterLoad ==
    /\ xhr.ready_state = Opened
    /\ xhr.generation_id = 2
    /\ ~xhr.send_flag
    /\ \E i \in 1..Len(log) : log[i].type = "load"

\* C35: no assertion fails: change_ready_state is never called with the state the
\* object is in, a HeadersReceived message is processed only in the state Opened,
\* and a Done message only in the state HeadersReceived or Loading, or for a
\* synchronous request; the messages of each fetch come in the order metadata,
\* chunks, end
C35_NoAssertionFails == ~panic

\* a synchronous request has processed its Done message in the state Opened, and
\* an asynchronous one before it in the state Loading
C35_SyncDoneAfterAsyncDone ==
    /\ xhr.sync
    /\ xhr.ready_state = Done
    /\ xhr.generation_id = 2
    /\ Len(fetches) = 2
    /\ ~fetches[1].sync
    /\ fetches[1].phase = "closed"
    /\ Len(fetches[1].sent) > 0
    /\ \E i \in 1..Len(log) : log[i].type = "load"

\* the worlds that the next message of fetch ctx, in the order of its messages,
\* can lead to
C36_NextMessage(ctx) ==
    CASE fetches[ctx].phase = "headers" ->
            {DoProcessResponse(World, ctx, meta) : meta \in Metas}
      [] fetches[ctx].phase = "body" ->
            {DoProcessResponseChunk(World, ctx, chunk) : chunk \in Chunks}
                \cup {DoProcessResponseEof(World, ctx, ok) : ok \in BOOLEAN}
      [] fetches[ctx].phase = "failed" -> {DoProcessResponseEof(World, ctx, FALSE)}
      [] OTHER -> {}

\* C36: once an Errored message of the current generation has been processed, a
\* later message of a fetch of that generation, and a timeout callback of that
\* generation, change no field of the object, fire no event and leave no handler
\* in progress
C36_LateMessageChangesNothing ==
    xhr.response_status = "Err" =>
        /\ \A ctx \in 1..Len(fetches) :
              CanDeliver(ctx) /\ fetches[ctx].gen_id = xhr.generation_id =>
                  \A w \in C36_NextMessage(ctx) :
                      w.xhr = xhr /\ w.log = log /\ w.stack = stack
        /\ \A t \in timers :
              CanRunTask /\ t.generation_id = xhr.generation_id =>
                  LET w == DoTimeout(World, t)
                  IN  w.xhr = xhr /\ w.log = log /\ w.stack = stack

\* a request has timed out while the fetch service still owes the metadata of
\* its response
C36_TimedOutBeforeHeaders ==
    /\ stack = <<>>
    /\ xhr.ready_state = Done
    /\ xhr.response_status = "Err"
    /\ xhr.response_url = ""
    /\ \E i \in 1..Len(log) : log[i].type = "timeout"
    /\ \E ctx \in 1..Len(fetches) :
          /\ fetches[ctx].gen_id = xhr.generation_id
          /\ fetches[ctx].phase = "headers"

\* the request of generation g is being sent
C37_Sending(g) == xhr.generation_id = g /\ xhr.send_flag

\* the request of generation g is over, or open or abort has replaced it
C37_Over(g) == xhr.generation_id # g \/ (xhr.ready_state = Done /\ ~xhr.send_flag)

\* a timeout callback of generation g is scheduled
C37_Scheduled(g) == \E t \in timers : t.generation_id = g

\* ENABLED <<ProcessResponse>>_vars and ENABLED <<ProcessResponseEof>>_vars: a
\* fetch has its metadata, or its end, to deliver, and its task can run
C37_Owes(phases) ==
    \E ctx \in 1..Len(fetches) : CanDeliver(ctx) /\ fetches[ctx].phase \in phases

\* ENABLED <<TimeoutFire>>_vars
C37_TimerDue == CanRunTask /\ timers # {}

\* WF_vars(ProcessResponse) /\ WF_vars(ProcessResponseEof): the fetch service
\* goes on to deliver the metadata and the end of a response
C37_FetchDelivers ==
    /\ []<>(~C37_Owes({"headers"})) \/ []<><<ProcessResponse>>_vars
    /\ []<>(~C37_Owes({"body", "failed"})) \/ []<><<ProcessResponseEof>>_vars

\* WF_vars(TimeoutFire): the timer service goes on to run the scheduled callbacks
C37_TimerFires == []<>(~C37_TimerDue) \/ []<><<TimeoutFire>>_vars

\* C37: a request that is being sent comes to the state Done with send_flag
\* clear, unless open or abort replaces it, if the fetch service goes on to
\* deliver the metadata and the end of its response; and so does a request with a
\* timeout callback scheduled, unless the callback is unscheduled, if the timer
\* service goes on to run the scheduled callbacks
C37_EventuallyDone ==
    /\ C37_FetchDelivers => \A g \in 1..MaxGen : C37_Sending(g) ~> C37_Over(g)
    /\ C37_TimerFires =>
          \A g \in 1..MaxGen :
              (C37_Sending(g) /\ C37_Scheduled(g)) ~> (C37_Over(g) \/ ~C37_Scheduled(g))

\* a request has timed out after the headers of its response had come
C37_TimedOutAfterHeaders ==
    /\ stack = <<>>
    /\ xhr.ready_state = Done
    /\ ~xhr.send_flag
    /\ \E i \in 1..Len(log) : log[i].ready_state = HeadersReceived
    /\ log[Len(log)] = C31_Event("xhr", "loadend", Done)
    /\ log[Len(log) - 1] = C31_Event("xhr", "timeout", Done)

\* C38: at every point, those inside the observers of an event included, send_flag
\* is set only in the states Opened, HeadersReceived and Loading
C38_SendFlagOnlyInProgress ==
    xhr.send_flag => xhr.ready_state \in {Opened, HeadersReceived, Loading}

\* an observer of the loadstart event of send runs, send_flag set, send having
\* been called by an observer of the readystatechange event of open
C38_SendingInsideObserver ==
    /\ Len(stack) = 2
    /\ stack[1].proc = "Open"
    /\ Top(World).proc = "Send"
    /\ Top(World).at = "observer"
    /\ xhr.send_flag
    /\ xhr.ready_state = Opened

\* how many events of these types have been fired on the object since the last
\* accepted send
C39_Count(types) ==
    Cardinality({i \in 1..Len(log) : log[i].target = "xhr" /\ log[i].type \in types})

\* C39: since the last accepted send at most one of load, error, abort and timeout
\* and at most one loadend have been fired on the object, whatever the messages of
\* the fetches, the timeout callbacks, the aborts and the calls from observers
C39_AtMostOneTerminalEvent ==
    /\ C39_Count({"load", "error", "abort", "timeout"}) <= 1
    /\ C39_Count({"loadend"}) <= 1

\* a request has timed out, and open or abort has then replaced it while its
\* fetch was still going on
C39_LateEndAfterTimeoutAndAbort ==
    /\ stack = <<>>
    /\ xhr.generation_id = 2
    /\ C39_Count({"timeout"}) = 1
    /\ C39_Count({"loadend"}) = 1
    /\ \E ctx \in 1..Len(fetches) : fetches[ctx].phase = "detached"

\* C40, as stated: whenever the request is synchronous the timeout is 0 and the
\* response type is the default one
C40_SyncHasNoTimeoutNorType ==
    xhr.sync => xhr.timeout = 0 /\ xhr.response_type = ""

\* C40, amended: whenever the request is synchronous and the object is in a
\* window, the timeout is 0 and the response type is the default one
C40_SyncInWindowHasNoTimeoutNorType ==
    sync_in_window(xhr) => xhr.timeout = 0 /\ xhr.response_type = ""

\* in a window the second request opened is synchronous, and setTimeout and
\* setResponseType change nothing
C40_SecondOpenedSyncInWindow ==
    /\ sync_in_window(xhr)
    /\ xhr.ready_state = Opened
    /\ xhr.generation_id = 2
    /\ stack = <<>>
    /\ \A t \in {0, 5} : DoSetTimeout(World, t) = World
    /\ \A type \in {"", "text"} : DoSetResponseType(World, type) = World


====
